---- MODULE Spec2Model ----
(***************************************************************************)
(* Coordinator of the distributed Redis cache: the role pointers of each   *)
(* shard (ConsistentHashRingWithReplication.nodes), the HealthMonitor      *)
(* state machine, the FailoverManager and the cache operations set and     *)
(* delete, with the interleavings the JavaScript event loop allows: every  *)
(* `await` of the source is a step boundary, the code between two awaits   *)
(* is one atomic step.                                                     *)
(***************************************************************************)
EXTENDS Naturals, Integers, Sequences, FiniteSets, Bags, TLC

(* ---------------------------------------------------------------- bounds *)
\* check runs of one shard that may be in flight together
MaxChecks == 1
\* manual POST /failover/:nodeId/trigger requests over a run
MaxTriggers == 1
\* failoverToReplica invocations over a run (caps the metrics counters)
MaxFailovers == 2
\* value at which the model stops counting failCount; checkNode only compares
\* the counter with failureThreshold, so the values from there on act alike
MaxFailCount == 3
\* cache operations in flight together
MaxOps == 1
\* primary (and replica) endpoints a configuration may list
MaxShards == 3
\* virtual nodes per shard a configuration may ask for
MaxVirtualNodes == 2
\* positions of the hash ring (2^32 in the source), small so that vnode
\* positions collide and lookups wrap around
hashSpace == 4
\* check runs of one shard in flight together where ticks overlap
MaxOverlap == 2
\* health events logged over a run
MaxEvents == 110
\* milliseconds the clock advances over a run where time passes
MaxNow == 2
\* the largest replication offset an endpoint reaches
MaxOffset == 2

(* ------------------------------------------------------------- constants *)
\* HealthMonitor.failureThreshold
failureThreshold == 3

\* the logical shards cache_node_<id>
Shards == {0, 1}
\* the shard whose endpoints, probes and requests a specification exercises;
\* the shards share no state, and the other shard stays as constructed
Observed == {0}
\* the two endpoints a shard is created with: "P" is the endpoint configured
\* as primary, "R" the one configured as replica
Endpoints == {"P", "R"}

Other(e) == IF e = "P" THEN "R" ELSE "P"

\* the keys the cache operations of a specification use
Keys == {"k"}

\* the keys stored through the virtual-node ring, and the strings stored
CacheKeys == {"a", "b"}
CacheTexts == {"v"}

(* ------------------------------------------------------------- values *)
\* a JavaScript value: its type and, for a string, its characters, for any
\* other value its JSON text
JsValue(type, text) == [type |-> type, text |-> text]
\* no value (a task that carries none)
NoValue == JsValue("none", "")
\* the values a caller passes to set: plain strings, strings that are
\* themselves JSON text, and structured values
Values ==
  { JsValue("string", "hello"), JsValue("string", "123"),
    JsValue("string", "true"), JsValue("number", "123"),
    JsValue("boolean", "true"), JsValue("object", "[1]") }

\* set line 267: typeof value === 'string' ? value : JSON.stringify(value)
valueStr(v) == v.text

\* the type of the value JSON.parse returns for a text, "invalid" when it
\* throws
JsonType(text) ==
  CASE text = "123" -> "number"
    [] text = "true" -> "boolean"
    [] text = "[1]" -> "object"
    [] OTHER -> "invalid"

\* get lines 190-195: try JSON.parse(value), catch: the raw string
parsedValue(text) ==
  IF JsonType(text) = "invalid" THEN JsValue("string", text)
  ELSE JsValue(JsonType(text), text)

\* the JavaScript number a / b for integers a >= 0, b > 0, kept exactly: its
\* integer part and the remainder over the divisor
Quotient(a, b) == [whole |-> a \div b, rest |-> a % b, per |-> b]
\* the integer n as a JavaScript number
Number(n) == Quotient(n, 1)

\* no report has been asked for yet
NoReport == [kind |-> "none"]
\* a shard's entry of getAllStats that has not been computed yet
NoEntry == [error |-> FALSE, status |-> "pending", lag |-> 0]

\* replies of GET: the nil reply and a bulk string
NilReply == [nil |-> TRUE, text |-> ""]
Bulk(text) == [nil |-> FALSE, text |-> text]

VARIABLES
  nodes,           \* cacheRing.nodes: shard -> [primary, replica] role pointers
  up,              \* environment: shard -> endpoint -> answers commands
  redis,           \* environment: shard -> endpoint -> [readOnly, master]
  failoverStatus,  \* FailoverManager.failoverStatus: shard -> [status, promoted]
  failoverMetrics, \* FailoverManager.failoverMetrics counters
  nodeStatus,      \* HealthMonitor.nodeStatus: shard -> [status, failCount]
  healthHistory,   \* HealthMonitor.healthHistory
  tasks,           \* bag of the async calls in flight, each at an await
  promotedBy,      \* history: endpoint promoted by a successful failover and
                   \*          reachable ever since
  consecFails,     \* history: failed probes since the last successful probe
  config,          \* the constructor's arguments and the hash of each vnode name
  coordinator,     \* the constructor call: "constructing", "ready", "TypeError"
  ring,            \* cacheRing.ring: position -> shard id
  sortedKeys,      \* cacheRing.sortedKeys
  virtualNodeMap,  \* cacheRing.virtualNodeMap: shard id -> its positions
  intervalId,      \* HealthMonitor.intervalId: "null" or "timer"
  now,             \* environment: what Date.now() returns, from the time of Init
  offset,          \* environment: shard -> endpoint -> its master_repl_offset
  report,          \* what the last call of a read-only report returned
  keyHash,         \* environment: cache key -> what hashFunction gives for it
  store,           \* environment: node id -> cache key -> what the node's
                   \*              Redis server holds for it
  removal          \* the removeNode call of the virtual-node ring, at an await

\* the state of the hash ring and of its construction
ringVars == <<config, coordinator, ring, sortedKeys, virtualNodeMap>>

\* what the reports read and return
statsVars == <<offset, report>>

\* what removeNode of the virtual-node ring reads and writes beside the ring
vnodeVars == <<keyHash, store, removal>>

vars == <<nodes, up, redis, failoverStatus, failoverMetrics, nodeStatus,
          healthHistory, tasks, promotedBy, consecFails, ringVars,
          intervalId, now, statsVars, vnodeVars>>


(* ------------------------------------------------------------ task bag *)
Add(b, t) == b (+) SetToBag({t})
Remove(b, t) == b (-) SetToBag({t})
Replace(b, t, u) == (b (-) SetToBag({t})) (+) SetToBag({u})
Running == BagToSet(tasks)

\* an async call suspended at an await: kind of the outermost caller, shard,
\* the await it sits at (pc), the endpoint whose reply it awaits (ep)
Task(kind, s, pc, ep) ==
  [kind |-> kind, shard |-> s, pc |-> pc, ep |-> ep,
   dup |-> FALSE, master |-> "none", ok |-> FALSE, mode |-> "async",
   gate |-> FALSE, result |-> "pending",
   key |-> "none", value |-> NoValue, first |-> "none", source |-> "none",
   replicas |-> 0, status |-> "async", removed |-> 0, after |-> "none",
   expect |-> NoValue, position |-> 0, startTime |-> 0]

\* how many tasks of the set S the bag holds
RECURSIVE CountIn(_)
CountIn(S) ==
  IF S = {} THEN 0
  ELSE LET t == CHOOSE x \in S : TRUE
       IN  CopiesIn(t, tasks) + CountIn(S \ {t})

(* ------------------------------------------------------------ hash ring *)
Positions == 0..(hashSpace - 1)
\* the index of a shard in the primary list: cache_node_<id>
NodeIds == 0..(MaxShards - 1)
\* the vnode names `${nodeName}:vnode${i}`
VNodeNames == NodeIds \X (0..(MaxVirtualNodes - 1))

\* the vnode names the constructor hashes under a configuration
UsedNames(p, v) == {n \in VNodeNames : n[1] < p /\ n[2] < v}

\* the configurations with p primaries, r replicas and v virtual nodes per
\* shard: one for each choice of what hashFunction gives for the vnode names
ConfigsOf(p, r, v) ==
  { [primaryNodes |-> p, replicaNodes |-> r, virtualNodeCount |-> v,
     hash |-> f] :
    f \in [UsedNames(p, v) -> Positions] }

\* the arguments of the constructor: the lengths of primaryNodes and
\* replicaNodes, virtualNodeCount, and what hashFunction gives for each vnode
\* name; the shards' vnodes fit the hash space
Configs ==
  UNION { ConfigsOf(x[1], x[2], x[3]) :
          x \in { y \in (0..MaxShards) \X (0..MaxShards) \X (0..MaxVirtualNodes) :
                    y[1] * y[3] <= hashSpace } }

\* the configuration of the two-shard cluster
DefaultConfig ==
  [primaryNodes |-> 2, replicaNodes |-> 2, virtualNodeCount |-> 1,
   hash |-> [n \in UsedNames(2, 1) |-> IF n = <<0, 0>> THEN 1 ELSE 3]]

\* hashFunction(key) for a vnode name: the first 32 bits of its SHA-256,
\* modulo hashSpace
hashFunction(cfg, name) == cfg.hash[name] % hashSpace

\* ring, sortedKeys and virtualNodeMap of a coordinator without shards
EmptyRing == [ring |-> <<>>, sortedKeys |-> <<>>, virtualNodeMap |-> <<>>]

\* the slot search that takes the hashed position although it is occupied
probe_Overwrites(r, position) == position

\* addNodeWithReplica lines 88-90: while (this.ring.has(position))
\* position = (position + 1) % this.hashSpace
RECURSIVE probe(_, _)
probe(r, position) ==
  IF position \in DOMAIN r THEN probe(r, (position + 1) % hashSpace)
  ELSE position

\* the insertion that gives the hashed position to the new vnode and moves
\* the vnode that held it forward
insertVNode_Displaces(acc, cfg, id, i) ==
  LET hashed == hashFunction(cfg, <<id, i>>)
      free == probe(acc.ring, hashed)
      owner == IF hashed \in DOMAIN acc.ring THEN acc.ring[hashed] ELSE id
  IN  [ring |-> [q \in DOMAIN acc.ring \cup {free} |->
                  IF q = hashed THEN id
                  ELSE IF q = free THEN owner ELSE acc.ring[q]],
       sortedKeys |-> Append(acc.sortedKeys, free),
       virtualPositions |-> Append(acc.virtualPositions, hashed)]

\* addNodeWithReplica lines 85-95: one pass of the vnode loop
insertVNode(acc, cfg, id, i) ==
  LET position == probe(acc.ring, hashFunction(cfg, <<id, i>>))
  IN  [ring |-> [q \in DOMAIN acc.ring \cup {position} |->
                  IF q = position THEN id ELSE acc.ring[q]],
       sortedKeys |-> Append(acc.sortedKeys, position),
       virtualPositions |-> Append(acc.virtualPositions, position)]

\* addNodeWithReplica lines 84-95: the vnode loop from pass i on
RECURSIVE insertVNodes(_, _, _, _)
insertVNodes(acc, cfg, id, i) ==
  IF i < cfg.virtualNodeCount
    THEN insertVNodes(insertVNode(acc, cfg, id, i), cfg, id, i + 1)
    ELSE acc

\* addNodeWithReplica lines 83-99 on the ring state rs: the vnode loop, the
\* sort of sortedKeys and the entry of virtualNodeMap
addVirtualNodes(rs, cfg, id) ==
  LET acc == insertVNodes([ring |-> rs.ring, sortedKeys |-> rs.sortedKeys,
                           virtualPositions |-> <<>>], cfg, id, 0)
  IN  [ring |-> acc.ring,
       sortedKeys |-> SortSeq(acc.sortedKeys, LAMBDA a, b : a < b),
       virtualNodeMap |->
         [n \in DOMAIN rs.virtualNodeMap \cup {id} |->
            IF n = id THEN acc.virtualPositions ELSE rs.virtualNodeMap[n]]]

\* the ring state after the constructor's first n addNodeWithReplica calls
RECURSIVE Construct(_, _)
Construct(cfg, n) ==
  IF n = 0 THEN EmptyRing
  ELSE addVirtualNodes(Construct(cfg, n - 1), cfg, n - 1)

\* the record of a shard absent from the failoverStatus map
NoRecord == [status |-> "NEVER_FAILED", promoted |-> FALSE]

\* no removeNode call is in flight
NoRemoval == [pc |-> "idle"]

\* the cluster and the components of a coordinator whose constructor has run
InitCluster ==
  /\ nodes = [s \in Shards |-> [primary |-> "P", replica |-> "R"]]
  /\ up = [s \in Shards |-> [e \in Endpoints |-> TRUE]]
  /\ redis = [s \in Shards |->
               [e \in Endpoints |->
                 [readOnly |-> TRUE,
                  master |-> IF e = "P" THEN "none" ELSE "P",
                  data |-> [k \in Keys |-> NilReply]]]]
  /\ failoverStatus = [s \in Shards |-> NoRecord]
  /\ failoverMetrics = [totalFailovers |-> 0, successfulFailovers |-> 0,
                        failedFailovers |-> 0, totalFailoverTime |-> 0,
                        averageFailoverTime |-> Number(0)]
  /\ now = 0
  /\ report = NoReport
  /\ nodeStatus = [s \in Shards |-> [status |-> "HEALTHY", failCount |-> 0]]
  /\ healthHistory = <<>>
  /\ tasks = EmptyBag
  /\ promotedBy = [s \in Shards |-> "none"]
  /\ consecFails = [s \in Shards |-> 0]
  /\ removal = NoRemoval

\* the replication offsets of the endpoints and the servers of the
\* virtual-node ring, left out where no operation reads them
Unread ==
  /\ offset = <<>>
  /\ keyHash = <<>>
  /\ store = <<>>

\* the coordinator of the two-shard cluster after connect(): the ring is
\* built and the monitor's timer runs
Init ==
  /\ InitCluster
  /\ Unread
  /\ config = DefaultConfig
  /\ coordinator = "ready"
  /\ ring = Construct(config, config.primaryNodes).ring
  /\ sortedKeys = Construct(config, config.primaryNodes).sortedKeys
  /\ virtualNodeMap = Construct(config, config.primaryNodes).virtualNodeMap
  /\ intervalId = "timer"

\* a coordinator about to be constructed from any configuration
InitRing ==
  /\ InitCluster
  /\ Unread
  /\ config \in Configs
  /\ coordinator = "constructing"
  /\ ring = EmptyRing.ring
  /\ sortedKeys = EmptyRing.sortedKeys
  /\ virtualNodeMap = EmptyRing.virtualNodeMap
  /\ intervalId = "null"

\* the coordinator of the two-shard cluster before connect() has started the
\* monitor
InitIdle ==
  /\ InitCluster
  /\ Unread
  /\ config = DefaultConfig
  /\ coordinator = "ready"
  /\ ring = Construct(config, config.primaryNodes).ring
  /\ sortedKeys = Construct(config, config.primaryNodes).sortedKeys
  /\ virtualNodeMap = Construct(config, config.primaryNodes).virtualNodeMap
  /\ intervalId = "null"

(* ------------------------------------------------------------ environment *)
\* a storage endpoint stops answering
Kill(s, e) ==
  /\ up[s][e]
  /\ up' = [up EXCEPT ![s][e] = FALSE]
  /\ promotedBy' = [promotedBy EXCEPT ![s] = IF @ = e THEN "none" ELSE @]
  /\ UNCHANGED <<nodes, redis, failoverStatus, failoverMetrics, nodeStatus,
                 healthHistory, tasks, consecFails>>
  /\ UNCHANGED <<ringVars, intervalId, now, statsVars>>
  /\ UNCHANGED vnodeVars

\* a storage endpoint answers again
Restart(s, e) ==
  /\ ~up[s][e]
  /\ up' = [up EXCEPT ![s][e] = TRUE]
  /\ UNCHANGED <<nodes, redis, failoverStatus, failoverMetrics, nodeStatus,
                 healthHistory, tasks, promotedBy, consecFails>>
  /\ UNCHANGED <<ringVars, intervalId, now, statsVars>>
  /\ UNCHANGED vnodeVars

(* -------------------------------------------------------- FailoverManager *)
\* isNodeInFailover comparing against the wrong status constant
isNodeInFailover_WrongStatus(s) == failoverStatus[s].status = "FAILED_OVER"

\* the gate that one record for the whole coordinator would give
isNodeInFailover_AnyShard(s) ==
  \E n \in Shards : failoverStatus[n].status = "FAILING_OVER"

\* isNodeInFailover(nodeName): the write gate
isNodeInFailover(s) == failoverStatus[s].status = "FAILING_OVER"

\* getWriteTarget(nodeName): the endpoint in the primary slot
getWriteTarget(s) == nodes[s].primary

\* getNodeFailoverStatus(nodeName)
getNodeFailoverStatus(s) == failoverStatus[s]

\* the record failoverToReplica writes first (lines 24-28)
FailingOver == [status |-> "FAILING_OVER", promoted |-> FALSE]
\* the record of a completed promotion (lines 41-46)
FailedOver == [status |-> "FAILED_OVER", promoted |-> TRUE]
\* the catch block leaving the record as failoverToReplica first wrote it
FailoverFailed_GateStays == [status |-> "FAILING_OVER", promoted |-> FALSE]

\* the record of the catch block (lines 63-67): no promoted field
FailoverFailed == [status |-> "FAILOVER_FAILED", promoted |-> FALSE]
\* the record handlePrimaryRecovery writes (lines 146-151): no promoted field
Recovered_KeepsPromoted == [status |-> "RECOVERED", promoted |-> TRUE]

Recovered == [status |-> "RECOVERED", promoted |-> FALSE]

\* the awaits of failoverToReplica and promoteReplica before the metrics are
\* updated
FailoverPcs == {"fo_ping", "fo_configSet", "fo_replicaOf", "fo_promoted",
                "fo_threw"}
\* failoverToReplica invocations so far: the finished ones are counted by the
\* metrics, the others are in flight
FailoverCalls ==
  failoverMetrics.totalFailovers + failoverMetrics.failedFailovers
    + CountIn({t \in Running : t.pc \in FailoverPcs})

\* failoverToReplica up to its first await: the task that awaits the PING of
\* the endpoint in the replica slot. dup remembers whether the shard's record
\* was FAILING_OVER or FAILED_OVER when the call was made.
failoverToReplica(kind, s) ==
  [Task(kind, s, "fo_ping", nodes[s].replica) EXCEPT
     !.dup = failoverStatus[s].status \in {"FAILING_OVER", "FAILED_OVER"},
     !.startTime = now]

\* the average taken over every failover attempted
updateAverageFailoverTime_PerAttempt(m) ==
  IF m.successfulFailovers > 0
    THEN [m EXCEPT !.averageFailoverTime =
            Quotient(m.totalFailoverTime,
                     m.successfulFailovers + m.failedFailovers)]
    ELSE m

\* updateAverageFailoverTime() on the metrics m (lines 193-199)
updateAverageFailoverTime(m) ==
  IF m.successfulFailovers > 0
    THEN [m EXCEPT !.averageFailoverTime =
            Quotient(m.totalFailoverTime, m.successfulFailovers)]
    ELSE m

\* the swap written without the temporary
swapRoles_NoTemp(n) == [primary |-> n.replica, replica |-> n.replica]

\* the swap of promoteReplica (lines 93-95), one synchronous block
swapRoles(n) == [primary |-> n.replica, replica |-> n.primary]

\* failoverToReplica resumes after the replica's PING
FoPingReply(t) ==
  /\ t.pc = "fo_ping"
  /\ IF up[t.shard][t.ep]
       THEN \* promoteReplica starts: CONFIG SET replica-read-only no
            /\ tasks' = Replace(tasks, t,
                  [t EXCEPT !.pc = "fo_configSet",
                            !.ep = nodes[t.shard].replica])
            /\ UNCHANGED <<failoverStatus, failoverMetrics>>
       ELSE \* catch block of failoverToReplica
            /\ failoverStatus' = [failoverStatus EXCEPT
                                    ![t.shard] = FailoverFailed]
            /\ failoverMetrics' = [failoverMetrics EXCEPT
                                     !.failedFailovers = @ + 1]
            /\ tasks' = Replace(tasks, t,
                  [t EXCEPT !.pc = "fo_return", !.ok = FALSE])
  /\ UNCHANGED <<nodes, up, redis, nodeStatus, healthHistory, promotedBy, consecFails>>
  /\ UNCHANGED <<ringVars, intervalId, now, statsVars>>
  /\ UNCHANGED vnodeVars

\* promoteReplica resumes after CONFIG SET replica-read-only no
FoConfigSetReply(t) ==
  /\ t.pc = "fo_configSet"
  /\ IF up[t.shard][t.ep]
       THEN \* REPLICAOF NO ONE goes to the endpoint now in the replica slot
            /\ redis' = [redis EXCEPT ![t.shard][t.ep].readOnly = FALSE]
            /\ tasks' = Replace(tasks, t,
                  [t EXCEPT !.pc = "fo_replicaOf",
                            !.ep = nodes[t.shard].replica])
       ELSE /\ tasks' = Replace(tasks, t, [t EXCEPT !.pc = "fo_threw"])
            /\ UNCHANGED redis
  /\ UNCHANGED <<nodes, up, failoverStatus, failoverMetrics, nodeStatus,
                 healthHistory, promotedBy, consecFails>>
  /\ UNCHANGED <<ringVars, intervalId, now, statsVars>>
  /\ UNCHANGED vnodeVars

\* promoteReplica resumes after REPLICAOF NO ONE and swaps the role pointers
FoReplicaOfReply(t) ==
  /\ t.pc = "fo_replicaOf"
  /\ IF up[t.shard][t.ep]
       THEN /\ redis' = [redis EXCEPT ![t.shard][t.ep].master = "none"]
            /\ nodes' = [nodes EXCEPT ![t.shard] = swapRoles(@)]
            /\ tasks' = Replace(tasks, t, [t EXCEPT !.pc = "fo_promoted"])
       ELSE /\ tasks' = Replace(tasks, t, [t EXCEPT !.pc = "fo_threw"])
            /\ UNCHANGED <<redis, nodes>>
  /\ UNCHANGED <<up, failoverStatus, failoverMetrics, nodeStatus,
                 healthHistory, promotedBy, consecFails>>
  /\ UNCHANGED <<ringVars, intervalId, now, statsVars>>
  /\ UNCHANGED vnodeVars

\* failoverToReplica resumes after promoteReplica returned (lines 38-58)
FoPromoted(t) ==
  /\ t.pc = "fo_promoted"
  /\ failoverStatus' = [failoverStatus EXCEPT ![t.shard] = FailedOver]
  /\ LET duration == now - t.startTime
     IN  failoverMetrics' = updateAverageFailoverTime(
           [failoverMetrics EXCEPT
              !.totalFailovers = @ + 1,
              !.successfulFailovers = @ + 1,
              !.totalFailoverTime = @ + duration])
  /\ tasks' = Replace(tasks, t, [t EXCEPT !.pc = "fo_return", !.ok = TRUE])
  /\ promotedBy' = [promotedBy EXCEPT ![t.shard] =
                      IF @ = "none" /\ up[t.shard][t.ep] THEN t.ep ELSE @]
  /\ UNCHANGED <<nodes, up, redis, nodeStatus, healthHistory, consecFails>>
  /\ UNCHANGED <<ringVars, intervalId, now, statsVars>>
  /\ UNCHANGED vnodeVars

\* the catch block that counts the failed attempt among totalFailovers too
FoThrew_CountsAttempt(t) ==
  /\ t.pc = "fo_threw"
  /\ failoverStatus' = [failoverStatus EXCEPT ![t.shard] = FailoverFailed]
  /\ failoverMetrics' = [failoverMetrics EXCEPT !.failedFailovers = @ + 1,
                                                !.totalFailovers = @ + 1]
  /\ tasks' = Replace(tasks, t, [t EXCEPT !.pc = "fo_return", !.ok = FALSE])
  /\ UNCHANGED <<nodes, up, redis, nodeStatus, healthHistory, promotedBy, consecFails>>
  /\ UNCHANGED <<ringVars, intervalId, now, statsVars>>
  /\ UNCHANGED vnodeVars

\* failoverToReplica catches what promoteReplica rethrew (lines 60-72)
FoThrew(t) ==
  /\ t.pc = "fo_threw"
  /\ failoverStatus' = [failoverStatus EXCEPT ![t.shard] = FailoverFailed]
  /\ failoverMetrics' = [failoverMetrics EXCEPT !.failedFailovers = @ + 1]
  /\ tasks' = Replace(tasks, t, [t EXCEPT !.pc = "fo_return", !.ok = FALSE])
  /\ UNCHANGED <<nodes, up, redis, nodeStatus, healthHistory, promotedBy, consecFails>>
  /\ UNCHANGED <<ringVars, intervalId, now, statsVars>>
  /\ UNCHANGED vnodeVars

\* handlePrimaryRecovery resumes after REPLICAOF <promoted host port>
RecReplicaOfReply(t) ==
  /\ t.pc = "rec_replicaOf"
  /\ IF up[t.shard][t.ep]
       THEN \* CONFIG SET replica-read-only yes on the same recoveredNode
            /\ redis' = [redis EXCEPT ![t.shard][t.ep].master = t.master]
            /\ tasks' = Replace(tasks, t, [t EXCEPT !.pc = "rec_configSet"])
       ELSE /\ tasks' = Replace(tasks, t, [t EXCEPT !.pc = "rec_done"])
            /\ UNCHANGED redis
  /\ UNCHANGED <<nodes, up, failoverStatus, failoverMetrics, nodeStatus,
                 healthHistory, promotedBy, consecFails>>
  /\ UNCHANGED <<ringVars, intervalId, now, statsVars>>
  /\ UNCHANGED vnodeVars

\* the record written whether or not the reconfiguration succeeded
RecoveryOutcome_Always(rec, ok) == Recovered

\* the record after handlePrimaryRecovery: RECOVERED is written after both
\* awaits (lines 132-151), the catch block (lines 153-158) writes nothing
RecoveryOutcome(rec, ok) == IF ok THEN Recovered ELSE rec

\* handlePrimaryRecovery resumes after CONFIG SET replica-read-only yes
RecConfigSetReply(t) ==
  /\ t.pc = "rec_configSet"
  /\ redis' = IF up[t.shard][t.ep]
                THEN [redis EXCEPT ![t.shard][t.ep].readOnly = TRUE]
                ELSE redis
  /\ failoverStatus' = [failoverStatus EXCEPT
       ![t.shard] = RecoveryOutcome(@, up[t.shard][t.ep])]
  /\ tasks' = Replace(tasks, t, [t EXCEPT !.pc = "rec_done"])
  /\ UNCHANGED <<nodes, up, failoverMetrics, nodeStatus, healthHistory,
                 promotedBy, consecFails>>
  /\ UNCHANGED <<ringVars, intervalId, now, statsVars>>
  /\ UNCHANGED vnodeVars

\* POST /failover/:nodeId/trigger calls failoverToReplica
Trigger(s) ==
  /\ CountIn({t \in Running : t.kind = "trigger"}) < MaxTriggers
  /\ FailoverCalls < MaxFailovers
  /\ failoverStatus' = [failoverStatus EXCEPT ![s] = FailingOver]
  /\ tasks' = Add(tasks, failoverToReplica("trigger", s))
  /\ UNCHANGED <<nodes, up, redis, failoverMetrics, nodeStatus,
                 healthHistory, promotedBy, consecFails>>
  /\ UNCHANGED <<ringVars, intervalId, now, statsVars>>
  /\ UNCHANGED vnodeVars

\* the route answers with the result of failoverToReplica
TriggerReturn(t) ==
  /\ t.kind = "trigger"
  /\ t.pc = "fo_return"
  /\ tasks' = Remove(tasks, t)
  /\ UNCHANGED <<nodes, up, redis, failoverStatus, failoverMetrics,
                 nodeStatus, healthHistory, promotedBy,
                 consecFails>>
  /\ UNCHANGED <<ringVars, intervalId, now, statsVars>>
  /\ UNCHANGED vnodeVars

(* ----------------------------------------------------------- HealthMonitor *)
\* the size healthHistory is trimmed to
HistoryLimit == 100

\* the trim that already drops the oldest event when the limit is reached
logHealthEvent_TrimsAtLimit(h, ev) ==
  LET pushed == Append(h, ev)
  IN  IF Len(pushed) >= HistoryLimit THEN Tail(pushed) ELSE pushed

\* logHealthEvent(event): append, keep the last HistoryLimit events
logHealthEvent(h, ev) ==
  LET pushed == Append(h, ev)
  IN  IF Len(pushed) > HistoryLimit THEN Tail(pushed) ELSE pushed

Checks(s) == {t \in Running : t.kind = "check" /\ t.shard = s}
NumChecks(s) == CountIn(Checks(s))

\* checkAllNodes() calls checkNode for every shard on each tick of setInterval;
\* this is checkNode(nodeName, nodeInfo) up to its await of the PING of the
\* endpoint in the primary slot. The 3000 ms PING deadline is shorter than
\* the 5000 ms interval, so the PING of the previous tick is over when a tick
\* fires; what a check awaits after its PING has no deadline.
checkNode(s) ==
  /\ intervalId # "null"
  /\ NumChecks(s) < MaxChecks
  /\ \A t \in Checks(s) : t.pc # "ping"
  /\ tasks' = Add(tasks, Task("check", s, "ping", nodes[s].primary))
  /\ UNCHANGED <<nodes, up, redis, failoverStatus, failoverMetrics,
                 nodeStatus, healthHistory, promotedBy,
                 consecFails>>
  /\ UNCHANGED <<ringVars, intervalId, now, statsVars>>
  /\ UNCHANGED vnodeVars

\* the status values for which checkNode neither fails over nor skips recovery
IsFailedStatus(st) == st = "FAILED" \/ st = "FAILED_OVER"

\* the threshold test off by one
ThresholdReached_OffByOne(failCount) == failCount >= failureThreshold - 1

\* the threshold test of checkNode (line 89)
ThresholdReached(failCount) == failCount >= failureThreshold

\* checkNode: the PING succeeded (lines 67-77)
ProbeOK(t) ==
  LET s == t.shard
  IN
  /\ t.kind = "check"
  /\ t.pc = "ping"
  /\ up[s][t.ep]
  /\ consecFails' = [consecFails EXCEPT ![s] = 0]
  /\ IF IsFailedStatus(nodeStatus[s].status)
       THEN \* handleNodeRecovery, then handlePrimaryRecovery to its first await
            /\ healthHistory' = logHealthEvent(healthHistory,
                 [node |-> s, event |-> "PRIMARY_RECOVERED"])
            /\ IF ~failoverStatus[s].promoted
                 THEN tasks' = Replace(tasks, t, [t EXCEPT !.pc = "rec_done"])
                 ELSE tasks' = Replace(tasks, t,
                        [t EXCEPT !.pc = "rec_replicaOf",
                                  !.ep = nodes[s].replica,
                                  !.master = nodes[s].primary])
            /\ UNCHANGED nodeStatus
       ELSE /\ nodeStatus' = [nodeStatus EXCEPT
                                ![s] = [status |-> "HEALTHY", failCount |-> 0]]
            /\ tasks' = Remove(tasks, t)
            /\ UNCHANGED healthHistory
  /\ UNCHANGED <<nodes, up, redis, failoverStatus, failoverMetrics, promotedBy>>
  /\ UNCHANGED <<ringVars, intervalId, now, statsVars>>
  /\ UNCHANGED vnodeVars

\* checkNode resumes after handleNodeRecovery (lines 75-77)
CheckAfterRecovery(t) ==
  /\ t.kind = "check"
  /\ t.pc = "rec_done"
  /\ nodeStatus' = [nodeStatus EXCEPT
                      ![t.shard] = [status |-> "HEALTHY", failCount |-> 0]]
  /\ tasks' = Remove(tasks, t)
  /\ UNCHANGED <<nodes, up, redis, failoverStatus, failoverMetrics,
                 healthHistory, promotedBy, consecFails>>
  /\ UNCHANGED <<ringVars, intervalId, now, statsVars>>
  /\ UNCHANGED vnodeVars

\* checkNode: the PING failed or timed out (lines 79-111)
ProbeFail(t) ==
  LET s == t.shard
      failCount == IF nodeStatus[s].failCount < MaxFailCount
                     THEN nodeStatus[s].failCount + 1
                     ELSE MaxFailCount
  IN
  /\ t.kind = "check"
  /\ t.pc = "ping"
  /\ ~up[s][t.ep]
  /\ consecFails' = [consecFails EXCEPT
                       ![s] = IF @ < MaxFailCount THEN @ + 1 ELSE @]
  /\ IF ThresholdReached(failCount) /\ ~IsFailedStatus(nodeStatus[s].status)
       THEN \* PRIMARY IS DEAD: failoverToReplica to its first await
            /\ FailoverCalls < MaxFailovers
            /\ nodeStatus' = [nodeStatus EXCEPT
                 ![s] = [status |-> "FAILED", failCount |-> failCount]]
            /\ healthHistory' = logHealthEvent(healthHistory,
                 [node |-> s, event |-> "PRIMARY_FAILED"])
            /\ failoverStatus' = [failoverStatus EXCEPT ![s] = FailingOver]
            /\ tasks' = Replace(tasks, t, failoverToReplica("check", s))
       ELSE /\ nodeStatus' = [nodeStatus EXCEPT ![s].failCount = failCount]
            /\ tasks' = Remove(tasks, t)
            /\ UNCHANGED <<healthHistory, failoverStatus>>
  /\ UNCHANGED <<nodes, up, redis, failoverMetrics, promotedBy>>
  /\ UNCHANGED <<ringVars, intervalId, now, statsVars>>
  /\ UNCHANGED vnodeVars

\* getHealthSummary() (lines 208-218): the counts of the health records by
\* status
CountStatus(st) == Cardinality({s \in DOMAIN nodeStatus : nodeStatus[s].status = st})
getHealthSummary ==
  [totalNodes |-> Cardinality(DOMAIN nodeStatus),
   healthy |-> CountStatus("HEALTHY"),
   failed |-> CountStatus("FAILED"),
   failedOver |-> CountStatus("FAILED_OVER"),
   overallHealth |-> IF \A s \in DOMAIN nodeStatus :
                           nodeStatus[s].status = "HEALTHY"
                       THEN "healthy" ELSE "degraded"]

\* the status that depends on the result: healthy again after a failover
\* that failed
StatusAfterFailover_ByResult(ok) == IF ok THEN "FAILED_OVER" ELSE "HEALTHY"

\* the status checkNode writes when failoverToReplica has returned (line 107)
StatusAfterFailover(ok) == "FAILED_OVER"

\* checkNode resumes after failoverToReplica (line 107)
CheckAfterFailover(t) ==
  /\ t.kind = "check"
  /\ t.pc = "fo_return"
  /\ nodeStatus' = [nodeStatus EXCEPT
                      ![t.shard].status = StatusAfterFailover(t.ok)]
  /\ tasks' = Remove(tasks, t)
  /\ UNCHANGED <<nodes, up, redis, failoverStatus, failoverMetrics,
                 healthHistory, promotedBy, consecFails>>
  /\ UNCHANGED <<ringVars, intervalId, now, statsVars>>
  /\ UNCHANGED vnodeVars

(* --------------------------------------------------------- cache operations *)
Ops == {t \in Running : t.kind \in {"set", "delete", "get"}}
NumOps == CountIn(Ops)

Modes == {"async", "sync"}

\* a storage endpoint accepts writes from clients unless it is a read-only
\* replica
Writable(s, e) == redis[s][e].master = "none" \/ ~redis[s][e].readOnly

\* the default replication mode of the coordinator (constructor argument
\* replicationMode, 'async' unless REPLICATION_MODE is set)
replicationMode == "async"

\* set line 268: mode || this.replicationMode; "null" stands for a mode that
\* is null or undefined
effectiveMode(mode) == IF mode = "null" THEN replicationMode ELSE mode

\* set(key, value, ttl, mode) without ttl for key k of shard s, up to its
\* first await or its early return: the task. gate remembers whether the
\* shard's record was FAILING_OVER when the call was made.
setCall(s, k, v, mode) ==
  IF isNodeInFailover(s)
    THEN [Task("set", s, "op_return", "none") EXCEPT
            !.mode = effectiveMode(mode),
            !.key = k, !.value = v,
            !.gate = failoverStatus[s].status = "FAILING_OVER",
            !.result = "NODE_IN_FAILOVER"]
    ELSE [Task("set", s, "set_write", getWriteTarget(s)) EXCEPT
            !.mode = effectiveMode(mode),
            !.key = k, !.value = v,
            !.first = getWriteTarget(s),
            !.gate = failoverStatus[s].status = "FAILING_OVER"]

\* a caller calls set(key, value, null, mode) on the coordinator
set(s, k, v, mode) ==
  /\ NumOps < MaxOps
  /\ tasks' = Add(tasks, setCall(s, k, v, mode))
  /\ UNCHANGED <<nodes, up, redis, failoverStatus, failoverMetrics,
                 nodeStatus, healthHistory, promotedBy, consecFails>>
  /\ UNCHANGED <<ringVars, intervalId, now, statsVars>>
  /\ UNCHANGED vnodeVars

\* the body the API front-end forwards to the coordinator: key, value and
\* ttl of the body it received (server.js lines 120-134)
forwardedBody(body) == [key |-> body.key, value |-> body.value]

\* the replicationMode the coordinator's POST /cache reads from a body
\* (part_002 line 310), undefined when the body has none
bodyMode(body) ==
  IF "replicationMode" \in DOMAIN body THEN body.replicationMode ELSE "null"

\* a client posts {key, value, replicationMode} to POST /cache of the API
\* front-end, which forwards to POST /cache of the coordinator, which calls
\* set (server.js lines 118-134, part_002 lines 309-320); the task keeps the
\* mode the client requested and the route it posted to
apiPostCache(s, k, v, mode) ==
  LET body == [key |-> k, value |-> v, replicationMode |-> mode]
  IN
  /\ NumOps < MaxOps
  /\ tasks' = Add(tasks,
       setCall(s, k, v, bodyMode(forwardedBody(body)))
         @@ [requested |-> bodyMode(body), via |-> "api"])
  /\ UNCHANGED <<nodes, up, redis, failoverStatus, failoverMetrics,
                 nodeStatus, healthHistory, promotedBy, consecFails>>
  /\ UNCHANGED <<ringVars, intervalId, now, statsVars>>
  /\ UNCHANGED vnodeVars

\* a client posts {key, value, replicationMode} to POST /cache of the
\* coordinator (part_002 lines 309-320)
coordinatorPostCache(s, k, v, mode) ==
  LET body == [key |-> k, value |-> v, replicationMode |-> mode]
  IN
  /\ NumOps < MaxOps
  /\ tasks' = Add(tasks,
       setCall(s, k, v, bodyMode(body))
         @@ [requested |-> bodyMode(body), via |-> "coordinator"])
  /\ UNCHANGED <<nodes, up, redis, failoverStatus, failoverMetrics,
                 nodeStatus, healthHistory, promotedBy, consecFails>>
  /\ UNCHANGED <<ringVars, intervalId, now, statsVars>>
  /\ UNCHANGED vnodeVars

\* set lines 317-326: the target a successful set reports, from the promoted
\* field of the shard's failover record when set returns
setTarget(s) ==
  IF getNodeFailoverStatus(s).promoted THEN "promoted_replica" ELSE "primary"

\* the status off by one: confirmed only from two replicas on
replicationStatus_TwoReplicas(replicated) ==
  IF replicated >= 2 THEN "confirmed" ELSE "timeout"

\* set line 307: replicated >= 1 ? 'confirmed' : 'timeout'
replicationStatus(replicated) ==
  IF replicated >= 1 THEN "confirmed" ELSE "timeout"

\* the client re-read from the role pointers when WAIT is issued
waitTarget_Reread(t) == getWriteTarget(t.shard)

\* the client WAIT is sent on: writeTarget, the local of set (lines 287, 305)
waitTarget(t) == t.ep

\* set resumes after SET (lines 293-312): replicationInfo starts as
\* {replicas: 0, status: 'async'}; in sync mode WAIT 1 1000 is sent
SetWriteReply(t) ==
  /\ t.kind = "set"
  /\ t.pc = "set_write"
  /\ IF up[t.shard][t.ep] /\ Writable(t.shard, t.ep)
       THEN /\ redis' = [redis EXCEPT
                 ![t.shard][t.ep].data[t.key] = Bulk(valueStr(t.value))]
            /\ IF t.mode = "sync"
                 THEN tasks' = Replace(tasks, t,
                        [t EXCEPT !.pc = "set_wait", !.ep = waitTarget(t)])
                 ELSE tasks' = Replace(tasks, t,
                        [t EXCEPT !.pc = "op_return", !.result = "ok"])
       ELSE /\ tasks' = Replace(tasks, t,
                 [t EXCEPT !.pc = "op_return", !.result = "error"])
            /\ UNCHANGED redis
  /\ UNCHANGED <<nodes, up, failoverStatus, failoverMetrics,
                 nodeStatus, healthHistory, promotedBy, consecFails>>
  /\ UNCHANGED <<ringVars, intervalId, now, statsVars>>
  /\ UNCHANGED vnodeVars

\* the replicas WAIT 1 1000 on endpoint e may report: the endpoint
\* replicating from e, if it is reachable, acknowledges in time or not
WaitReplies(s, e) ==
  IF up[s][Other(e)] /\ redis[s][Other(e)].master = e THEN {0, 1} ELSE {0}

\* set resumes after WAIT (lines 305-311; a failed WAIT is caught) and
\* returns success
SetWaitReply(t) ==
  LET s == t.shard
      e == t.ep
  IN
  /\ t.kind = "set"
  /\ t.pc = "set_wait"
  /\ IF up[s][e]
       THEN \E n \in WaitReplies(s, e) :
              /\ redis' = IF n = 1
                   THEN [redis EXCEPT ![s][Other(e)].data = redis[s][e].data]
                   ELSE redis
              /\ tasks' = Replace(tasks, t,
                   [t EXCEPT !.pc = "op_return", !.result = "ok",
                             !.replicas = n,
                             !.status = replicationStatus(n)])
       ELSE /\ tasks' = Replace(tasks, t,
                 [t EXCEPT !.pc = "op_return", !.result = "ok",
                           !.status = "error"])
            /\ UNCHANGED redis
  /\ UNCHANGED <<nodes, up, failoverStatus, failoverMetrics,
                 nodeStatus, healthHistory, promotedBy, consecFails>>
  /\ UNCHANGED <<ringVars, intervalId, now, statsVars>>
  /\ UNCHANGED vnodeVars

\* delete(key) for key k of shard s up to its await of DEL: the task
deleteCall(s, k) ==
  [Task("delete", s, "del_write", getWriteTarget(s)) EXCEPT
     !.key = k,
     !.gate = failoverStatus[s].status = "FAILING_OVER"]

\* a caller calls delete(key)
delete(s, k) ==
  /\ NumOps < MaxOps
  /\ tasks' = Add(tasks, deleteCall(s, k))
  /\ UNCHANGED <<nodes, up, redis, failoverStatus, failoverMetrics,
                 nodeStatus, healthHistory, promotedBy, consecFails>>
  /\ UNCHANGED <<ringVars, intervalId, now, statsVars>>
  /\ UNCHANGED vnodeVars

\* success for every reply of DEL that is a number
deleteSuccess_AnyReply(result) == result >= 0

\* delete line 351: success: result === 1
deleteSuccess(result) == result = 1

\* delete resumes after DEL and returns (lines 348-365); removed is the
\* reply of DEL, the number of keys it removed
DeleteReply(t) ==
  /\ t.kind = "delete"
  /\ t.pc = "del_write"
  /\ IF up[t.shard][t.ep] /\ Writable(t.shard, t.ep)
       THEN LET n == IF redis[t.shard][t.ep].data[t.key].nil THEN 0 ELSE 1
            IN  /\ redis' = [redis EXCEPT
                     ![t.shard][t.ep].data[t.key] = NilReply]
                /\ tasks' = Replace(tasks, t,
                     [t EXCEPT !.pc = "op_return",
                               !.removed = n,
                               !.result = IF deleteSuccess(n)
                                            THEN "ok" ELSE "not_removed"])
       ELSE /\ tasks' = Replace(tasks, t,
                 [t EXCEPT !.pc = "op_return", !.result = "error"])
            /\ UNCHANGED redis
  /\ UNCHANGED <<nodes, up, failoverStatus, failoverMetrics,
                 nodeStatus, healthHistory, promotedBy, consecFails>>
  /\ UNCHANGED <<ringVars, intervalId, now, statsVars>>
  /\ UNCHANGED vnodeVars

\* the endpoint get reads first, taken from the other slot
readFirst_Replica(n) == n.replica

\* the endpoint get reads first (line 175): node.primary
readFirst(n) == n.primary

\* get(key) for key k of shard s up to its await of the first GET: the task
getCall(s, k) ==
  [Task("get", s, "get_primary", readFirst(nodes[s])) EXCEPT
     !.key = k,
     !.first = readFirst(nodes[s]),
     !.gate = failoverStatus[s].status = "FAILING_OVER"]

\* a caller calls get(key)
get(s, k) ==
  /\ NumOps < MaxOps
  /\ tasks' = Add(tasks, getCall(s, k))
  /\ UNCHANGED <<nodes, up, redis, failoverStatus, failoverMetrics,
                 nodeStatus, healthHistory, promotedBy, consecFails>>
  /\ UNCHANGED <<ringVars, intervalId, now, statsVars>>
  /\ UNCHANGED vnodeVars

\* what get returns for the reply of a GET read from `source` (lines 178-205
\* and 214-244)
GetResult(t, reply, source) ==
  IF reply.nil
    THEN [t EXCEPT !.pc = "op_return", !.result = "KEY_NOT_FOUND",
                   !.source = source]
    ELSE [t EXCEPT !.pc = "op_return", !.result = "ok",
                   !.value = parsedValue(reply.text), !.source = source]

\* get resumes after the first GET; when it threw, the fallback GET goes to
\* the endpoint that is in the replica slot of the node object now (line 211)
GetPrimaryReply(t) ==
  /\ t.kind = "get"
  /\ t.pc = "get_primary"
  /\ IF up[t.shard][t.ep]
       THEN tasks' = Replace(tasks, t,
              GetResult(t, redis[t.shard][t.ep].data[t.key], "primary"))
       ELSE tasks' = Replace(tasks, t,
              [t EXCEPT !.pc = "get_replica",
                        !.ep = nodes[t.shard].replica])
  /\ UNCHANGED <<nodes, up, redis, failoverStatus, failoverMetrics,
                 nodeStatus, healthHistory, promotedBy, consecFails>>
  /\ UNCHANGED <<ringVars, intervalId, now, statsVars>>
  /\ UNCHANGED vnodeVars

\* get resumes after the fallback GET (lines 211-258)
GetReplicaReply(t) ==
  /\ t.kind = "get"
  /\ t.pc = "get_replica"
  /\ IF up[t.shard][t.ep]
       THEN tasks' = Replace(tasks, t,
              GetResult(t, redis[t.shard][t.ep].data[t.key], "replica"))
       ELSE tasks' = Replace(tasks, t,
              [t EXCEPT !.pc = "op_return", !.result = "NODE_UNAVAILABLE"])
  /\ UNCHANGED <<nodes, up, redis, failoverStatus, failoverMetrics,
                 nodeStatus, healthHistory, promotedBy, consecFails>>
  /\ UNCHANGED <<ringVars, intervalId, now, statsVars>>
  /\ UNCHANGED vnodeVars

\* the route handler resumes with the result of set, delete or get and answers
OpReturn(t) ==
  /\ t.kind \in {"set", "delete", "get"}
  /\ t.pc = "op_return"
  /\ tasks' = Remove(tasks, t)
  /\ UNCHANGED <<nodes, up, redis, failoverStatus, failoverMetrics,
                 nodeStatus, healthHistory, promotedBy, consecFails>>
  /\ UNCHANGED <<ringVars, intervalId, now, statsVars>>
  /\ UNCHANGED vnodeVars

\* a set or delete has returned a result that is not an error
Completed(t) ==
  /\ t.pc = "op_return"
  /\ \/ t.kind = "set" /\ t.result = "ok"
     \/ t.kind = "delete" /\ t.result \in {"ok", "not_removed"}

\* the caller of a completed set calls delete on the same key next; after
\* and expect remember what the call follows
ThenDelete(t) ==
  /\ t.kind = "set"
  /\ Completed(t)
  /\ tasks' = Replace(tasks, t,
       [deleteCall(t.shard, t.key) EXCEPT
          !.after = "set", !.expect = t.value])
  /\ UNCHANGED <<nodes, up, redis, failoverStatus, failoverMetrics,
                 nodeStatus, healthHistory, promotedBy, consecFails>>
  /\ UNCHANGED <<ringVars, intervalId, now, statsVars>>
  /\ UNCHANGED vnodeVars

\* the caller of a completed set, or of a completed delete that followed a
\* set, calls get on the same key next
ThenGet(t) ==
  /\ \/ t.kind = "set"
     \/ t.kind = "delete" /\ t.after = "set"
  /\ Completed(t)
  /\ tasks' = Replace(tasks, t,
       [getCall(t.shard, t.key) EXCEPT
          !.after = IF t.kind = "set" THEN "set" ELSE "set_delete",
          !.expect = IF t.kind = "set" THEN t.value ELSE t.expect])
  /\ UNCHANGED <<nodes, up, redis, failoverStatus, failoverMetrics,
                 nodeStatus, healthHistory, promotedBy, consecFails>>
  /\ UNCHANGED <<ringVars, intervalId, now, statsVars>>
  /\ UNCHANGED vnodeVars

\* asynchronous replication: the replica e of shard s catches up with its
\* master
Replicate(s, e) ==
  LET m == redis[s][e].master
  IN
  /\ m # "none"
  /\ up[s][e] /\ up[s][m]
  /\ redis[s][e].data # redis[s][m].data
  /\ redis' = [redis EXCEPT ![s][e].data = redis[s][m].data]
  /\ UNCHANGED <<nodes, up, failoverStatus, failoverMetrics, nodeStatus,
                 healthHistory, tasks, promotedBy, consecFails>>
  /\ UNCHANGED <<ringVars, intervalId, now, statsVars>>
  /\ UNCHANGED vnodeVars

(* -------------------------------------------------- ring lookup and set-up *)
\* what getNodeForKey gives when it throws 'No nodes available in ring'
NoNodes == 0 - 1
\* what getNodeForKey gives when sortedKeys[left] is no position of the ring
\* (nodes.get(undefined))
Undefined == 0 - 2

\* the emptiness test that never fires
lookupFails_Never(keys) == FALSE

\* getNodeForKey line 105: this.sortedKeys.length === 0
lookupFails(keys) == Len(keys) = 0

\* the comparison that also steps over a position equal to the hash
before_OrEqual(position, keyPosition) == position <= keyPosition

\* getNodeForKey line 115: this.sortedKeys[mid] < keyPosition
before(position, keyPosition) == position < keyPosition

\* getNodeForKey lines 113-120: the binary search loop (left and right count
\* from 0 as in the source)
RECURSIVE search(_, _, _, _)
search(keys, keyPosition, left, right) ==
  IF left < right
    THEN LET mid == (left + right) \div 2
         IN  IF before(keys[mid + 1], keyPosition)
               THEN search(keys, keyPosition, mid + 1, right)
               ELSE search(keys, keyPosition, left, mid)
    ELSE left

\* getNodeForKey lines 104-129 on the sorted positions keys and the owner map
\* r, for a key whose hash is keyPosition: the id of the shard it returns
lookup(keys, r, keyPosition) ==
  IF lookupFails(keys) THEN NoNodes
  ELSE LET found == search(keys, keyPosition, 0, Len(keys))
           left == IF found >= Len(keys) THEN 0 ELSE found
       IN  IF left + 1 \in DOMAIN keys /\ keys[left + 1] \in DOMAIN r
             THEN r[keys[left + 1]]
             ELSE Undefined

\* a lookup that routes around a shard whose failover is in flight
getNodeForKey_AvoidsFailover(keyPosition) ==
  LET n == lookup(sortedKeys, ring, keyPosition)
  IN  IF n \in Shards /\ failoverStatus[n].status = "FAILING_OVER"
        THEN (n + 1) % config.primaryNodes
        ELSE n

\* getNodeForKey(key) of the coordinator for a key whose hash is keyPosition
getNodeForKey(keyPosition) == lookup(sortedKeys, ring, keyPosition)

\* the shards the constructor has added so far
Added == DOMAIN virtualNodeMap

\* the constructor's forEach calls addNodeWithReplica(index, primaryConfig,
\* replicaNodes[index]); reading host of an undefined replicaConfig (line 57)
\* throws before anything of that shard is stored. The role pointers the
\* call stores are those InitCluster gives the shard.
addNodeWithReplica(id) ==
  /\ coordinator = "constructing"
  /\ id = Cardinality(Added)
  /\ id < config.primaryNodes
  /\ IF id >= config.replicaNodes
       THEN /\ coordinator' = "TypeError"
            /\ UNCHANGED <<ring, sortedKeys, virtualNodeMap>>
       ELSE LET rs == addVirtualNodes(
                        [ring |-> ring, sortedKeys |-> sortedKeys,
                         virtualNodeMap |-> virtualNodeMap], config, id)
            IN  /\ ring' = rs.ring
                /\ sortedKeys' = rs.sortedKeys
                /\ virtualNodeMap' = rs.virtualNodeMap
                /\ UNCHANGED coordinator
  /\ UNCHANGED <<nodes, up, redis, failoverStatus, failoverMetrics,
                 nodeStatus, healthHistory, tasks, promotedBy, consecFails,
                 config, intervalId, now, statsVars>>
  /\ UNCHANGED vnodeVars

\* the constructor returns once every primary has been added (lines 28-30)
constructed ==
  /\ coordinator = "constructing"
  /\ Cardinality(Added) = config.primaryNodes
  /\ coordinator' = "ready"
  /\ UNCHANGED <<nodes, up, redis, failoverStatus, failoverMetrics,
                 nodeStatus, healthHistory, tasks, promotedBy, consecFails,
                 config, ring, sortedKeys, virtualNodeMap, intervalId, now, statsVars>>
  /\ UNCHANGED vnodeVars

\* set, get or delete for a key whose hash is keyPosition, to the end of its
\* first statement, this.getNodeForKey(key): the call is rejected with the
\* error getNodeForKey throws, or goes on with the shard it was given (reading
\* node.name of undefined is a TypeError). ep is the endpoint a command has
\* been sent to.
route(kind, keyPosition) ==
  LET node == getNodeForKey(keyPosition)
      call == [Task(kind, node, "routed", "none") EXCEPT
                 !.position = keyPosition]
  IN
  /\ coordinator = "ready"
  /\ NumOps = 0
  /\ tasks' = Add(tasks,
       IF node = NoNodes
         THEN [call EXCEPT !.pc = "op_return",
                           !.result = "No nodes available in ring"]
       ELSE IF node = Undefined
         THEN [call EXCEPT !.pc = "op_return", !.result = "TypeError"]
       ELSE call)
  /\ UNCHANGED <<nodes, up, redis, failoverStatus, failoverMetrics,
                 nodeStatus, healthHistory, promotedBy, consecFails>>
  /\ UNCHANGED <<ringVars, intervalId, now, statsVars>>
  /\ UNCHANGED vnodeVars

\* a routed call goes on as the set, get or delete of its shard
Routed(t) ==
  /\ t.pc = "routed"
  /\ tasks' = Remove(tasks, t)
  /\ UNCHANGED <<nodes, up, redis, failoverStatus, failoverMetrics,
                 nodeStatus, healthHistory, promotedBy, consecFails>>
  /\ UNCHANGED <<ringVars, intervalId, now, statsVars>>
  /\ UNCHANGED vnodeVars

\* getFailoverMetrics().successRate (lines 208-210): 'N/A' (na), or the
\* percentage (successfulFailovers / totalFailovers) * 100 as toFixed(1)
\* prints it, in tenths of a percent rounded half up
successRate(m) ==
  IF m.totalFailovers > 0
    THEN [na |-> FALSE,
          tenths |-> (2000 * m.successfulFailovers + m.totalFailovers)
                       \div (2 * m.totalFailovers)]
    ELSE [na |-> TRUE, tenths |-> 0]

\* time passes: Date.now() returns a later instant from now on (the clock of
\* the host is not set back while the coordinator runs)
TimePasses ==
  /\ now < MaxNow
  /\ now' = now + 1
  /\ UNCHANGED <<nodes, up, redis, failoverStatus, failoverMetrics,
                 nodeStatus, healthHistory, tasks, promotedBy, consecFails,
                 ringVars, intervalId, statsVars>>
  /\ UNCHANGED vnodeVars

(* ------------------------------------------------------------- getAllStats *)
\* the replication stream of an endpoint advances: its master_repl_offset
\* grows
OffsetAdvances(s, e) ==
  /\ offset[s][e] < MaxOffset
  /\ offset' = [offset EXCEPT ![s][e] = @ + 1]
  /\ UNCHANGED <<nodes, up, redis, failoverStatus, failoverMetrics,
                 nodeStatus, healthHistory, tasks, promotedBy, consecFails,
                 ringVars, intervalId, now, report>>
  /\ UNCHANGED vnodeVars

\* the lag taken as the plain difference of the offsets
replicationLag_Signed(primaryOffset, replicaOffset) ==
  primaryOffset - replicaOffset

\* getAllStats line 398: Math.max(0, primaryOffset - replicaOffset)
replicationLag(primaryOffset, replicaOffset) ==
  IF primaryOffset - replicaOffset > 0 THEN primaryOffset - replicaOffset
  ELSE 0

\* the replication part of a shard's entry (lines 421-424)
statsEntry(primaryOffset, replicaOffset) ==
  LET lag == replicationLag(primaryOffset, replicaOffset)
  IN  [error |-> FALSE,
       status |-> IF lag = 0 THEN "synced" ELSE "lagging",
       lag |-> lag]

\* the entry of the catch block (lines 430-436)
ErrorEntry == [error |-> TRUE, status |-> "none", lag |-> 0]

StatsCalls == {t \in Running : t.kind = "stats"}

\* getAllStats(): the map callback starts for every shard and awaits INFO
\* replication on the endpoint in the primary slot (lines 369-372)
getAllStats ==
  /\ StatsCalls = {}
  /\ tasks' = tasks (+)
       SetToBag({Task("stats", s, "stats_primary", nodes[s].primary)
                   @@ [offset |-> 0, entry |-> NoEntry] : s \in Shards})
  /\ UNCHANGED <<nodes, up, redis, failoverStatus, failoverMetrics,
                 nodeStatus, healthHistory, promotedBy, consecFails,
                 ringVars, intervalId, now, offset, report>>
  /\ UNCHANGED vnodeVars

\* the callback resumes after the three INFO calls on the primary, taken
\* together, and awaits INFO replication on the endpoint now in the replica
\* slot (lines 372-376); a failed call lands in the catch block
StatsPrimaryReply(t) ==
  /\ t.kind = "stats"
  /\ t.pc = "stats_primary"
  /\ tasks' = Replace(tasks, t,
       IF up[t.shard][t.ep]
         THEN [t EXCEPT !.pc = "stats_replica",
                        !.ep = nodes[t.shard].replica,
                        !.offset = offset[t.shard][t.ep]]
         ELSE [t EXCEPT !.pc = "stats_entry", !.entry = ErrorEntry])
  /\ UNCHANGED <<nodes, up, redis, failoverStatus, failoverMetrics,
                 nodeStatus, healthHistory, promotedBy, consecFails,
                 ringVars, intervalId, now, offset, report>>
  /\ UNCHANGED vnodeVars

\* the callback resumes after the two INFO calls on the replica, taken
\* together, and returns the shard's entry (lines 376-428, 430-436)
StatsReplicaReply(t) ==
  /\ t.kind = "stats"
  /\ t.pc = "stats_replica"
  /\ tasks' = Replace(tasks, t,
       [t EXCEPT !.pc = "stats_entry",
                 !.entry = IF up[t.shard][t.ep]
                             THEN statsEntry(t.offset, offset[t.shard][t.ep])
                             ELSE ErrorEntry])
  /\ UNCHANGED <<nodes, up, redis, failoverStatus, failoverMetrics,
                 nodeStatus, healthHistory, promotedBy, consecFails,
                 ringVars, intervalId, now, offset, report>>
  /\ UNCHANGED vnodeVars

\* the entry the callback of shard s returned
EntryOf(s) ==
  (CHOOSE t \in StatsCalls : t.shard = s /\ t.pc = "stats_entry").entry

\* Promise.all has every entry: getAllStats returns (lines 441-461)
StatsReturn ==
  /\ \A s \in Shards :
       \E t \in StatsCalls : t.shard = s /\ t.pc = "stats_entry"
  /\ report' = [kind |-> "stats",
               nodeCount |-> Cardinality(DOMAIN nodes),
               replicationHealth |->
                 IF \A s \in Shards : EntryOf(s).status = "synced"
                   THEN "all_synced" ELSE "some_lagging",
               nodes |-> [s \in Shards |-> EntryOf(s)]]
  /\ tasks' = tasks (-) SetToBag(StatsCalls)
  /\ UNCHANGED <<nodes, up, redis, failoverStatus, failoverMetrics,
                 nodeStatus, healthHistory, promotedBy, consecFails,
                 ringVars, intervalId, now, offset>>
  /\ UNCHANGED vnodeVars

(* ------------------------------------------------------ monitor lifecycle *)
\* startMonitoring(), called by connect(): every health record is reset, the
\* timer is set and checkAllNodes runs at once (lines 14-36). It is called
\* while no check run is in flight.
startMonitoring ==
  /\ intervalId = "null"
  /\ \A s \in Observed : NumChecks(s) = 0
  /\ nodeStatus' = [s \in Shards |-> [status |-> "HEALTHY", failCount |-> 0]]
  /\ intervalId' = "timer"
  /\ tasks' = tasks (+)
       SetToBag({Task("check", s, "ping", nodes[s].primary) : s \in Observed})
  /\ UNCHANGED <<nodes, up, redis, failoverStatus, failoverMetrics,
                 healthHistory, promotedBy, consecFails, ringVars, now, statsVars>>
  /\ UNCHANGED vnodeVars

\* stop(), called by disconnect(): clearInterval when a timer is set (lines
\* 223-229)
stop ==
  /\ intervalId' = "null"
  /\ UNCHANGED <<nodes, up, redis, failoverStatus, failoverMetrics,
                 nodeStatus, healthHistory, tasks, promotedBy, consecFails,
                 ringVars, now, statsVars>>
  /\ UNCHANGED vnodeVars

\* a tick of setInterval (lines 30-32, 41-46): checkAllNodes calls checkNode
\* whether or not earlier check runs of the shard still await a failover or a
\* recovery; a run still at its probe has ended by then, the deadline of the
\* probe (3000 ms) being shorter than the interval (5000 ms)
overlappingTick(s) ==
  /\ intervalId # "null"
  /\ NumChecks(s) < MaxOverlap
  /\ \A t \in Checks(s) : t.pc # "ping"
  /\ tasks' = Add(tasks, Task("check", s, "ping", nodes[s].primary))
  /\ UNCHANGED <<nodes, up, redis, failoverStatus, failoverMetrics,
                 nodeStatus, healthHistory, promotedBy, consecFails,
                 ringVars, intervalId, now, statsVars>>
  /\ UNCHANGED vnodeVars

\* the time of the newest event of the history, 0 when there is none
Clock == IF healthHistory = <<>> THEN 0
         ELSE healthHistory[Len(healthHistory)].timestamp

\* handleNodeRecovery logs the recovery of shard s at the next instant
\* (lines 118-123)
logRecovery(s) ==
  /\ Clock < MaxEvents
  /\ healthHistory' = logHealthEvent(healthHistory,
       [node |-> s, event |-> "PRIMARY_RECOVERED", timestamp |-> Clock + 1])
  /\ UNCHANGED <<nodes, up, redis, failoverStatus, failoverMetrics,
                 nodeStatus, tasks, promotedBy, consecFails, ringVars,
                 intervalId, now, statsVars>>
  /\ UNCHANGED vnodeVars

(* ---------------------------------------------------------- specification *)
\* the storage endpoints of shard s fail and come back
EnvStep(s) ==
  \/ \E e \in Endpoints : Kill(s, e)
  \/ \E e \in Endpoints : Restart(s, e)

\* the steps of the health monitor for shard s
MonitorStep(s) ==
  \/ checkNode(s)
  \/ \E t \in Checks(s) : ProbeOK(t)
  \/ \E t \in Checks(s) : ProbeFail(t)
  \/ \E t \in Checks(s) : CheckAfterFailover(t)
  \/ \E t \in Checks(s) : CheckAfterRecovery(t)
  \/ \E t \in Checks(s) : RecReplicaOfReply(t)
  \/ \E t \in Checks(s) : RecConfigSetReply(t)

\* the steps of the failoverToReplica calls in flight
FailoverStep ==
  \/ \E t \in Running : FoPingReply(t)
  \/ \E t \in Running : FoConfigSetReply(t)
  \/ \E t \in Running : FoReplicaOfReply(t)
  \/ \E t \in Running : FoPromoted(t)
  \/ \E t \in Running : FoThrew(t)

\* the manual failover route
TriggerStep(s) ==
  \/ Trigger(s)
  \/ \E t \in Running : TriggerReturn(t)

\* the value the write requests of a specification without reads carry
Payload == JsValue("string", "hello")

\* set and delete on keys of shard s
OpStep(s) ==
  \/ \E k \in Keys, m \in Modes : set(s, k, Payload, m)
  \/ \E k \in Keys : delete(s, k)
  \/ \E t \in Running : SetWriteReply(t)
  \/ \E t \in Running : SetWaitReply(t)
  \/ \E t \in Running : DeleteReply(t)
  \/ \E t \in Running : OpReturn(t)

\* monitor, manual trigger and failover manager over failing endpoints
Next ==
  \/ \E s \in Observed : EnvStep(s)
  \/ \E s \in Observed : MonitorStep(s)
  \/ \E s \in Observed : TriggerStep(s)
  \/ FailoverStep

Spec == Init /\ [][Next]_vars

\* the monitor alone drives the failover manager
NextMon ==
  \/ \E s \in Observed : EnvStep(s)
  \/ \E s \in Observed : MonitorStep(s)
  \/ FailoverStep

SpecMon == Init /\ [][NextMon]_vars

\* the monitor alone, with every tick fired and every continuation that is
\* ready run in the end, as setInterval and the event loop do
SpecLive ==
  /\ Init
  /\ [][NextMon]_vars
  /\ \A s \in Observed :
       /\ WF_vars(checkNode(s))
       /\ WF_vars(\E t \in Checks(s) : ProbeOK(t))
       /\ WF_vars(\E t \in Checks(s) : ProbeFail(t))
       /\ WF_vars(\E t \in Checks(s) : CheckAfterFailover(t))
       /\ WF_vars(\E t \in Checks(s) : CheckAfterRecovery(t))
       /\ WF_vars(\E t \in Checks(s) : RecReplicaOfReply(t))
       /\ WF_vars(\E t \in Checks(s) : RecConfigSetReply(t))
  /\ WF_vars(\E t \in Running : FoPingReply(t))
  /\ WF_vars(\E t \in Running : FoConfigSetReply(t))
  /\ WF_vars(\E t \in Running : FoReplicaOfReply(t))
  /\ WF_vars(\E t \in Running : FoPromoted(t))
  /\ WF_vars(\E t \in Running : FoThrew(t))

\* the monitor alone, where only what the code bounds by a deadline, or what
\* a reachable endpoint answers, is sure to resume: the PING of checkNode
\* races a 3000 ms timer, the commands of failoverToReplica, promoteReplica
\* and handlePrimaryRecovery are awaited with no timer
Answered(t) == up[t.shard][t.ep]

SpecNoDeadline ==
  /\ Init
  /\ [][NextMon]_vars
  /\ \A s \in Observed :
       /\ WF_vars(checkNode(s))
       /\ WF_vars(\E t \in Checks(s) : ProbeOK(t))
       /\ WF_vars(\E t \in Checks(s) : ProbeFail(t))
       /\ WF_vars(\E t \in Checks(s) : CheckAfterFailover(t))
       /\ WF_vars(\E t \in Checks(s) : CheckAfterRecovery(t))
       /\ SF_vars(\E t \in Checks(s) : Answered(t) /\ RecReplicaOfReply(t))
       /\ SF_vars(\E t \in Checks(s) : Answered(t) /\ RecConfigSetReply(t))
  /\ SF_vars(\E t \in Running : Answered(t) /\ FoPingReply(t))
  /\ SF_vars(\E t \in Running : Answered(t) /\ FoConfigSetReply(t))
  /\ SF_vars(\E t \in Running : Answered(t) /\ FoReplicaOfReply(t))
  /\ WF_vars(\E t \in Running : FoPromoted(t))
  /\ WF_vars(\E t \in Running : FoThrew(t))

\* cache operations against manually triggered failovers
NextOps ==
  \/ \E s \in Observed : EnvStep(s)
  \/ \E s \in Observed : TriggerStep(s)
  \/ FailoverStep
  \/ \E s \in Observed : OpStep(s)

SpecOps == Init /\ [][NextOps]_vars

\* concurrent set calls on keys of shard s
SetStep(s) ==
  \/ \E k \in Keys, m \in Modes : set(s, k, Payload, m)
  \/ \E t \in Running : SetWriteReply(t)
  \/ \E t \in Running : SetWaitReply(t)
  \/ \E t \in Running : t.kind = "set" /\ OpReturn(t)

\* the replicas of shard s catch up
ReplicationStep(s) == \E e \in Endpoints : Replicate(s, e)

\* set calls against manually triggered failovers
NextSet ==
  \/ \E s \in Observed : EnvStep(s)
  \/ \E s \in Observed : TriggerStep(s)
  \/ FailoverStep
  \/ \E s \in Observed : SetStep(s)

SpecSet == Init /\ [][NextSet]_vars

\* callers that use a key one at a time: a set, a delete or a get starts when
\* no operation is in flight, and a caller may follow its set with delete or
\* get, and its delete with get
SerialStep(s) ==
  \/ \E k \in Keys : NumOps = 0 /\ set(s, k, Payload, "async")
  \/ \E k \in Keys : NumOps = 0 /\ delete(s, k)
  \/ \E k \in Keys : NumOps = 0 /\ get(s, k)
  \/ \E t \in Running : ThenDelete(t)
  \/ \E t \in Running : ThenGet(t)
  \/ \E t \in Running : SetWriteReply(t)
  \/ \E t \in Running : DeleteReply(t)
  \/ \E t \in Running : GetPrimaryReply(t)
  \/ \E t \in Running : GetReplicaReply(t)
  \/ \E t \in Running : OpReturn(t)

\* one caller at a time over replicating, failing endpoints and manually
\* triggered failovers
NextSerial ==
  \/ \E s \in Observed : EnvStep(s)
  \/ \E s \in Observed : ReplicationStep(s)
  \/ \E s \in Observed : TriggerStep(s)
  \/ FailoverStep
  \/ \E s \in Observed : SerialStep(s)

SpecSerial == Init /\ [][NextSerial]_vars

\* a caller sets a key of a shard whose endpoints stay up to each value, in
\* each mode, and may read it back
RoundTripStep(s) ==
  \/ \E k \in Keys, v \in Values, m \in Modes :
       NumOps = 0 /\ set(s, k, v, m)
  \/ \E t \in Running : ThenGet(t)
  \/ \E t \in Running : SetWriteReply(t)
  \/ \E t \in Running : SetWaitReply(t)
  \/ \E t \in Running : GetPrimaryReply(t)
  \/ \E t \in Running : OpReturn(t)

\* set then get on a healthy shard
NextRoundTrip ==
  \/ \E s \in Observed : ReplicationStep(s)
  \/ \E s \in Observed : RoundTripStep(s)

SpecRoundTrip == Init /\ [][NextRoundTrip]_vars

\* the constructor builds the ring of a configuration, then set, get and
\* delete look keys up
NextRing ==
  \/ \E id \in NodeIds : addNodeWithReplica(id)
  \/ constructed
  \/ \E kind \in {"set", "get", "delete"}, keyPosition \in Positions :
       route(kind, keyPosition)
  \/ \E t \in Running : Routed(t)
  \/ \E t \in Running : OpReturn(t)

SpecRing == InitRing /\ [][NextRing]_vars

\* one caller at a time on a key of shard s, whose endpoints answer: a get is
\* answered by the primary and never falls back to the replica
CallerStep(s) ==
  \/ \E k \in Keys : NumOps = 0 /\ set(s, k, Payload, "async")
  \/ \E k \in Keys : NumOps = 0 /\ delete(s, k)
  \/ \E k \in Keys : NumOps = 0 /\ get(s, k)
  \/ \E t \in Running : SetWriteReply(t)
  \/ \E t \in Running : DeleteReply(t)
  \/ \E t \in Running : GetPrimaryReply(t)
  \/ \E t \in Running : OpReturn(t)

\* the steps of the health monitor for shard s when each tick finds the
\* check run of the tick before finished
TickStep(s) ==
  \/ NumChecks(s) = 0 /\ checkNode(s)
  \/ \E t \in Checks(s) : ProbeOK(t)
  \/ \E t \in Checks(s) : ProbeFail(t)
  \/ \E t \in Checks(s) : CheckAfterFailover(t)
  \/ \E t \in Checks(s) : CheckAfterRecovery(t)
  \/ \E t \in Checks(s) : RecReplicaOfReply(t)
  \/ \E t \in Checks(s) : RecConfigSetReply(t)

\* the monitor fails the observed shard over and recovers it while callers
\* use a key of the other shard
NextIndep ==
  \/ \E s \in Observed : EnvStep(s)
  \/ \E s \in Observed : TickStep(s)
  \/ FailoverStep
  \/ \E s \in Shards \ Observed : CallerStep(s)

SpecIndep == Init /\ [][NextIndep]_vars

\* the monitor with ticks that fire while a check run is in flight
OverlapStep(s) ==
  \/ overlappingTick(s)
  \/ \E t \in Checks(s) : ProbeOK(t)
  \/ \E t \in Checks(s) : ProbeFail(t)
  \/ \E t \in Checks(s) : CheckAfterFailover(t)
  \/ \E t \in Checks(s) : CheckAfterRecovery(t)
  \/ \E t \in Checks(s) : RecReplicaOfReply(t)
  \/ \E t \in Checks(s) : RecConfigSetReply(t)

NextOverlap ==
  \/ \E s \in Observed : EnvStep(s)
  \/ \E s \in Observed : OverlapStep(s)
  \/ FailoverStep

SpecOverlap == Init /\ [][NextOverlap]_vars

\* overlapping ticks while only the endpoint configured as primary fails and
\* comes back
NextOverlapPrimary ==
  \/ \E s \in Observed : Kill(s, "P")
  \/ \E s \in Observed : Restart(s, "P")
  \/ \E s \in Observed : OverlapStep(s)
  \/ FailoverStep

SpecOverlapPrimary == Init /\ [][NextOverlapPrimary]_vars

\* the monitor started by connect() and stopped by disconnect()
NextStop ==
  \/ startMonitoring
  \/ stop
  \/ \E s \in Observed : EnvStep(s)
  \/ \E s \in Observed : MonitorStep(s)
  \/ FailoverStep

SpecStop == InitIdle /\ [][NextStop]_vars

\* manually triggered failovers while time passes
NextMetrics ==
  \/ \E s \in Observed : EnvStep(s)
  \/ \E s \in Observed : TriggerStep(s)
  \/ FailoverStep
  \/ TimePasses

SpecMetrics == Init /\ [][NextMetrics]_vars

\* getAllStats while the endpoints of the observed shard fail and the
\* replication streams of the other shard advance
NextStats ==
  \/ \E s \in Observed : EnvStep(s)
  \/ \E s \in Shards \ Observed, e \in Endpoints : OffsetAdvances(s, e)
  \/ getAllStats
  \/ \E t \in Running : StatsPrimaryReply(t)
  \/ \E t \in Running : StatsReplicaReply(t)
  \/ StatsReturn

\* the two-shard cluster with the replication offsets of its endpoints
InitStats ==
  /\ InitCluster
  /\ config = DefaultConfig
  /\ coordinator = "ready"
  /\ ring = Construct(config, config.primaryNodes).ring
  /\ sortedKeys = Construct(config, config.primaryNodes).sortedKeys
  /\ virtualNodeMap = Construct(config, config.primaryNodes).virtualNodeMap
  /\ intervalId = "timer"
  /\ offset = [s \in Shards |-> [e \in Endpoints |-> 0]]
  /\ keyHash = <<>>
  /\ store = <<>>

SpecStats == InitStats /\ [][NextStats]_vars

\* set calls on the shard the monitor fails over and recovers
NextTarget ==
  \/ \E s \in Observed : EnvStep(s)
  \/ \E s \in Observed : TickStep(s)
  \/ FailoverStep
  \/ \E s \in Observed : SetStep(s)

SpecTarget == Init /\ [][NextTarget]_vars

\* the modes a request may carry: none, or one of the two modes
RequestModes == {"null"} \cup Modes

\* writes posted to the API front-end and to the coordinator, one at a time
NextApi ==
  \/ \E s \in Observed : EnvStep(s)
  \/ \E s \in Observed, k \in Keys, m \in RequestModes :
       NumOps = 0 /\ apiPostCache(s, k, Payload, m)
  \/ \E s \in Observed, k \in Keys, m \in RequestModes :
       NumOps = 0 /\ coordinatorPostCache(s, k, Payload, m)
  \/ \E t \in Running : SetWriteReply(t)
  \/ \E t \in Running : SetWaitReply(t)
  \/ \E t \in Running : t.kind = "set" /\ OpReturn(t)

SpecApi == Init /\ [][NextApi]_vars

\* health events logged one after the other
NextHistory == \E s \in Observed : logRecovery(s)

SpecHistory == Init /\ [][NextHistory]_vars

(* ---------------------------------------------------------------- claims *)
\* a task of the next state that this step has put at its await
Started(u) == CopiesIn(u, tasks') > CopiesIn(u, tasks)
\* a task that this step has resumed
Ended(t) == CopiesIn(t, tasks') < CopiesIn(t, tasks)

\* the awaits a failoverToReplica call reaches once it has issued
\* CONFIG SET replica-read-only no
PromotionPcs == {"fo_configSet", "fo_replicaOf", "fo_promoted"}

\* C1: a failoverToReplica call made while the shard's failover record is
\* FAILING_OVER or FAILED_OVER returns without issuing CONFIG SET or
\* REPLICAOF NO ONE and without swapping the role pointers.
C1_AtMostOncePromotion ==
  \A t \in Running :
    t.dup => /\ t.pc \notin PromotionPcs
             /\ ~(t.pc = "fo_return" /\ t.ok)

\* C2: a set called while the shard's failover record is FAILING_OVER returns
\* the NODE_IN_FAILOVER failure and has sent nothing to either endpoint.
C2_SetGated ==
  \A t \in Running :
    (t.kind = "set" /\ t.gate) =>
      /\ t.pc = "op_return"
      /\ t.result = "NODE_IN_FAILOVER"
      /\ t.ep = "none"

\* a set was called while a failover of its shard was in flight
C2_Witness ==
  \E t \in Running :
    /\ t.kind = "set" /\ t.gate
    /\ failoverStatus[t.shard].status = "FAILING_OVER"

\* C3: a delete called while the shard's failover record is FAILING_OVER
\* returns the NODE_IN_FAILOVER failure and has sent no DEL to either endpoint.
C3_DeleteGated ==
  \A t \in Running :
    (t.kind = "delete" /\ t.gate) =>
      /\ t.pc = "op_return"
      /\ t.result = "NODE_IN_FAILOVER"
      /\ t.ep = "none"

\* C4: in every state the primary and replica pointers of a shard are two
\* different endpoints, and together exactly the pair the shard was created
\* with.
C4_RolePointerSafety ==
  \A s \in Shards :
    /\ nodes[s].primary # nodes[s].replica
    /\ {nodes[s].primary, nodes[s].replica} = Endpoints

\* a promotion has swapped the pointers and its failoverToReplica has not yet
\* resumed
C4_Witness ==
  \E t \in Running :
    /\ t.pc = "fo_promoted"
    /\ nodes[t.shard] = [primary |-> "R", replica |-> "P"]

\* C5: every exchange of a shard's role pointers happens while the shard's
\* failover record is FAILING_OVER, before and after the step.
C5_SwapUnderGate ==
  [][\A s \in Shards :
       nodes'[s] # nodes[s] =>
         /\ failoverStatus[s].status = "FAILING_OVER"
         /\ failoverStatus'[s].status = "FAILING_OVER"]_vars

\* C6: once a failoverToReplica has returned success, every set or delete
\* started with the gate lowered is sent to the endpoint that failover
\* promoted, for as long as that endpoint has stayed reachable.
C6_WritesFollowPromotion ==
  [][\A u \in BagToSet(tasks') :
       ( /\ u.pc \in {"set_write", "del_write"}
         /\ Started(u)
         /\ ~u.gate
         /\ promotedBy[u.shard] # "none" )
       => u.ep = promotedBy[u.shard]]_vars

\* C7: the monitor sets FAILED and calls failoverToReplica only when the
\* failure counter has reached failureThreshold through that many failed
\* probes with no successful probe in between; a successful probe of a HEALTHY
\* shard below the threshold resets the counter, leaves the shard HEALTHY and
\* starts no failover.
C7_ThresholdFailover ==
  [][\A s \in Shards :
       /\ ( \/ (nodeStatus'[s].status = "FAILED"
                  /\ nodeStatus[s].status # "FAILED")
            \/ \E u \in BagToSet(tasks') :
                 /\ u.kind = "check" /\ u.shard = s /\ u.pc = "fo_ping"
                 /\ Started(u) )
          => /\ nodeStatus'[s].failCount >= failureThreshold
             /\ consecFails'[s] >= failureThreshold
             /\ nodeStatus'[s].status = "FAILED"
       /\ \A t \in Checks(s) :
            ( /\ t.pc = "ping" /\ Ended(t) /\ up[s][t.ep]
              /\ nodeStatus[s].status = "HEALTHY"
              /\ nodeStatus[s].failCount < failureThreshold )
            => /\ nodeStatus'[s] = [status |-> "HEALTHY", failCount |-> 0]
               /\ \A u \in BagToSet(tasks') : Started(u) => u.pc = "ping"
               /\ failoverStatus'[s] = failoverStatus[s]]_vars

\* the monitor has declared the primary dead after failureThreshold failed
\* probes in a row and is awaiting the failover it started
C7_Witness ==
  \E t \in Running :
    /\ t.kind = "check" /\ t.pc = "fo_ping"
    /\ nodeStatus[t.shard].status = "FAILED"
    /\ consecFails[t.shard] >= failureThreshold

\* C8: when the failoverToReplica started by the monitor has failed, the
\* shard's health status stays FAILED and does not become FAILED_OVER.
C8_FailedFailoverStaysFailed ==
  [][\A t \in Running :
       (t.kind = "check" /\ t.pc = "fo_return" /\ ~t.ok /\ Ended(t))
       => nodeStatus'[t.shard].status # "FAILED_OVER"]_vars

\* the primary e of shard s is down, its replica is up, k failovers have
\* succeeded so far and the model still has a failoverToReplica call to spend
PrimaryOutage(s, e, k) ==
  /\ nodes[s].primary = e
  /\ ~up[s][e]
  /\ up[s][Other(e)]
  /\ failoverMetrics.successfulFailovers = k
  /\ FailoverCalls < MaxFailovers

\* C9: if a shard's primary stops answering for good while its replica stays
\* reachable, the health status eventually becomes FAILED_OVER with the former
\* replica as write endpoint and successfulFailovers one higher (the outage
\* ending, or the replica failing, releases the obligation).
C9_FailoverOnPrimaryKill ==
  \A s \in Observed, e \in Endpoints, k \in 0..(MaxFailovers - 1) :
    PrimaryOutage(s, e, k) ~>
      \/ up[s][e]
      \/ ~up[s][Other(e)]
      \/ /\ nodeStatus[s].status = "FAILED_OVER"
         /\ getWriteTarget(s) = Other(e)
         /\ failoverMetrics.successfulFailovers = k + 1

\* the endpoint that was primary before the promotion the record remembers
DemotedEndpoint(s) ==
  IF failoverStatus[s].promoted THEN nodes[s].replica ELSE nodes[s].primary

\* C10: the monitor starts recovery handling only after a successful probe of
\* the original primary, the endpoint in the replica slot after a swap; a
\* successful probe of the promoted endpoint never starts it.
C10_RecoveryProbesOriginalPrimary ==
  [][\A t \in Running :
       ( /\ t.kind = "check" /\ t.pc = "ping" /\ Ended(t)
         /\ \E u \in BagToSet(tasks') :
              u.pc \in {"rec_done", "rec_replicaOf"} /\ Started(u) )
       => t.ep = DemotedEndpoint(t.shard)]_vars

\* C11: after a completed failover, once the original primary (the endpoint
\* in the replica slot) is reachable again and stays reachable, it is
\* eventually reconfigured as a replica of the promoted endpoint and the
\* failover record becomes RECOVERED (the endpoint going down again, the
\* promoted endpoint going down, or another role change releases the
\* obligation).
C11_RecoveryEventually ==
  \A s \in Observed, e \in Endpoints :
    ( /\ failoverStatus[s] = FailedOver
      /\ nodes[s].replica = e
      /\ up[s][e] /\ up[s][Other(e)] )
    ~> \/ ~up[s][e]
       \/ ~up[s][Other(e)]
       \/ nodes[s].replica # e
       \/ /\ failoverStatus[s].status = "RECOVERED"
          /\ redis[s][e].master = Other(e)

\* the awaits of handlePrimaryRecovery
RecoveryPcs == {"rec_replicaOf", "rec_configSet"}

\* C12: no step of handlePrimaryRecovery, from its call to its return, changes
\* the role pointers of any shard, so the write endpoint is the one it was
\* before that step; the failover record becomes RECOVERED only in the step
\* in which CONFIG SET replica-read-only yes succeeds on the recovered
\* endpoint, which is awaited only after REPLICAOF succeeded on it.
C12_RecoveryKeepsRoles ==
  [][\A s \in Shards :
       /\ \A t \in Checks(s) :
            (t.pc \in RecoveryPcs /\ Ended(t)) => nodes' = nodes
       /\ \A u \in BagToSet(tasks') :
            (u.pc \in RecoveryPcs \cup {"rec_done"} /\ Started(u)) =>
              nodes' = nodes
       /\ ( /\ failoverStatus'[s].status = "RECOVERED"
            /\ failoverStatus[s].status # "RECOVERED" )
          => \E t \in Checks(s) :
               /\ t.pc = "rec_configSet" /\ Ended(t)
               /\ up[s][t.ep]
               /\ redis'[s][t.ep].readOnly]_vars

\* the recovered endpoint has been reconfigured and the swapped roles stand
C12_Witness ==
  \E s \in Shards :
    /\ failoverStatus[s].status = "RECOVERED"
    /\ nodes[s] = [primary |-> "R", replica |-> "P"]
    /\ redis[s]["P"].master = "R"

\* C13: when the replica PING, CONFIG SET replica-read-only no or REPLICAOF
\* NO ONE fails, failoverToReplica returns a failure result, and in the step
\* that produces it the failover record becomes FAILOVER_FAILED, the gate is
\* lowered, and the role pointers and successfulFailovers are unchanged; the
\* step in which promoteReplica fails changes no role pointer either.
C13_FailedFailoverEffects ==
  [][\A u \in BagToSet(tasks') :
       /\ (u.pc = "fo_return" /\ ~u.ok /\ Started(u)) =>
            /\ failoverStatus'[u.shard].status = "FAILOVER_FAILED"
            /\ ~isNodeInFailover(u.shard)'
            /\ nodes' = nodes
            /\ failoverMetrics'.successfulFailovers
                  = failoverMetrics.successfulFailovers
       /\ (u.pc = "fo_threw" /\ Started(u)) =>
            /\ nodes' = nodes
            /\ failoverMetrics' = failoverMetrics]_vars

\* a failoverToReplica has returned failure after CONFIG SET succeeded and
\* REPLICAOF NO ONE failed
C13_Witness ==
  \E t \in Running :
    /\ t.pc = "fo_return" /\ ~t.ok
    /\ ~redis[t.shard][t.ep].readOnly
    /\ redis[t.shard][t.ep].master # "none"
    /\ failoverStatus[t.shard].status = "FAILOVER_FAILED"

\* C14: a shard that entered FAILING_OVER always leaves it in the end, also
\* when the replica never answers.
C14_FailoverTerminates ==
  \A s \in Observed :
    (failoverStatus[s].status = "FAILING_OVER")
      ~> (failoverStatus[s].status # "FAILING_OVER")

\* C15: get is never refused because of the failover status; its first read
\* goes to the shard's write endpoint; the other endpoint is read only when
\* the first read raised an error; a nil reply of the write endpoint yields
\* KEY_NOT_FOUND with source primary at once.
C15_GetReadsWriteEndpointFirst ==
  [][/\ \A t \in Running :
          t.kind = "get" => t.result # "NODE_IN_FAILOVER"
     /\ \A u \in BagToSet(tasks') :
          (u.kind = "get" /\ u.pc = "get_primary" /\ Started(u)) =>
            u.ep = getWriteTarget(u.shard)
     /\ \A t \in Running :
          (t.kind = "get" /\ t.pc = "get_primary" /\ Ended(t)) =>
            \E u \in BagToSet(tasks') :
              /\ Started(u)
              /\ IF ~up[t.shard][t.ep]
                   THEN u.pc = "get_replica"
                   ELSE /\ u.pc = "op_return"
                        /\ u.source = "primary"
                        /\ u.ep = t.ep
                        /\ redis[t.shard][t.ep].data[t.key].nil
                              <=> u.result = "KEY_NOT_FOUND"]_vars

\* a get called while a failover of its shard was in flight has returned
\* KEY_NOT_FOUND from its first read
C15_Witness ==
  \E t \in Running :
    /\ t.kind = "get" /\ t.gate
    /\ t.pc = "op_return"
    /\ t.result = "KEY_NOT_FOUND"
    /\ t.source = "primary"

\* C16: get returns NODE_UNAVAILABLE only if it attempted a read on both
\* distinct endpoints of the shard.
C16_UnavailableAfterBothEndpoints ==
  \A t \in Running :
    (t.kind = "get" /\ t.result = "NODE_UNAVAILABLE") => t.first # t.ep

\* C17: in sync mode WAIT is issued only when the SET has completed, on the
\* endpoint that received the SET; in async mode no WAIT is issued.
C17_WaitOnSetEndpoint ==
  [][/\ \A u \in BagToSet(tasks') :
          (u.pc = "set_wait" /\ Started(u)) =>
            /\ u.mode = "sync"
            /\ u.ep = u.first
            /\ \E t \in Running :
                 /\ t.pc = "set_write" /\ Ended(t)
                 /\ up[t.shard][t.ep]
                 /\ redis'[t.shard][t.ep].data[t.key]
                      = Bulk(valueStr(t.value))
     /\ \A t \in Running :
          (t.kind = "set" /\ t.mode = "async") =>
            /\ t.pc # "set_wait"
            /\ t.replicas = 0 /\ t.status = "async"]_vars

\* a sync set awaits its WAIT on the endpoint it wrote to while the role
\* pointers have been swapped since
C17_Witness ==
  \E t \in Running :
    /\ t.pc = "set_wait"
    /\ t.ep = t.first
    /\ getWriteTarget(t.shard) # t.ep

\* C18: a sync-mode set whose WAIT reports 0 replicas returns success with
\* replicas 0 and status timeout; the status is confirmed exactly when WAIT
\* reports at least 1; the outcome of WAIT never makes the set fail.
C18_WaitOutcome ==
  [][\A t \in Running :
       (t.pc = "set_wait" /\ Ended(t)) =>
         \E u \in BagToSet(tasks') :
           /\ Started(u)
           /\ u.pc = "op_return" /\ u.result = "ok"
           /\ u.status = "confirmed" <=> u.replicas >= 1
           /\ (up[t.shard][t.ep] /\ u.replicas = 0) => u.status = "timeout"
           /\ u.status \in {"confirmed", "timeout", "error"}]_vars

\* a sync set has returned success with no replica acknowledging
C18_Witness ==
  \E t \in Running :
    /\ t.kind = "set" /\ t.mode = "sync" /\ t.pc = "op_return"
    /\ t.result = "ok" /\ t.replicas = 0 /\ t.status = "timeout"

\* C19: a get that follows a successful set(k, v) on a healthy shard, with
\* no write to k in between, returns success with a value equal to v.
C19_SetGetRoundTrip ==
  \A t \in Running :
    (t.kind = "get" /\ t.after = "set" /\ t.pc = "op_return") =>
      /\ t.result = "ok"
      /\ t.value = t.expect

\* a delete reports success exactly when its DEL removed one key
DeleteReportsRemoval ==
  \A t \in Running :
    (t.kind = "delete" /\ t.pc = "op_return" /\ t.result # "error") =>
      (t.result = "ok" <=> t.removed = 1)

\* C20 as stated: a get that follows a set and a delete of the same key, each
\* returning no error, returns KEY_NOT_FOUND under any interleaved failover,
\* and delete reports success exactly when DEL removed one key.
C20_SetDeleteGet ==
  /\ DeleteReportsRemoval
  /\ \A t \in Running :
       ( /\ t.kind = "get" /\ t.after = "set_delete" /\ t.pc = "op_return"
         /\ t.result # "NODE_UNAVAILABLE" )
       => t.result = "KEY_NOT_FOUND"

\* C20 amended: on a shard for which no failover has been started, a get
\* that follows a set and a delete of the same key and is answered by the
\* primary endpoint returns KEY_NOT_FOUND; delete reports success exactly
\* when DEL removed one key.
C20_SetDeleteGetHealthy ==
  /\ DeleteReportsRemoval
  /\ \A t \in Running :
       ( /\ t.kind = "get" /\ t.after = "set_delete" /\ t.pc = "op_return"
         /\ t.source = "primary"
         /\ failoverStatus[t.shard] = NoRecord )
       => t.result = "KEY_NOT_FOUND"

\* a get after set and delete has been answered KEY_NOT_FOUND by the primary
\* of a shard that never failed over
C20_Witness ==
  \E t \in Running :
    /\ t.kind = "get" /\ t.after = "set_delete" /\ t.pc = "op_return"
    /\ t.source = "primary" /\ failoverStatus[t.shard] = NoRecord
    /\ t.result = "KEY_NOT_FOUND"

(* ------------------------------------------------------- hash ring claims *)
\* the positions a shard owns in the ring
Owned(id) == {p \in DOMAIN ring : ring[p] = id}

\* the elements of a sequence
Range(seq) == {seq[i] : i \in DOMAIN seq}

\* C21: after construction with N shards and V virtual nodes per shard the
\* ring holds exactly N*V positions, all distinct, kept in sortedKeys in
\* strictly ascending order, and each shard owns exactly V of them.
C21_RingPositions ==
  coordinator = "ready" =>
    LET N == config.primaryNodes
        V == config.virtualNodeCount
    IN  /\ Cardinality(DOMAIN ring) = N * V
        /\ Len(sortedKeys) = N * V
        /\ Range(sortedKeys) = DOMAIN ring
        /\ \A i \in 1..(Len(sortedKeys) - 1) : sortedKeys[i] < sortedKeys[i + 1]
        /\ DOMAIN virtualNodeMap = 0..(N - 1)
        /\ \A id \in 0..(N - 1) :
             /\ Cardinality(Owned(id)) = V
             /\ Len(virtualNodeMap[id]) = V
             /\ Range(virtualNodeMap[id]) = Owned(id)

\* a ring is in service in which a vnode found its hashed position taken
\* and sits at a later one, and another sits past the end of the hash space
C21_Witness ==
  /\ coordinator = "ready"
  /\ \E id \in Added : \E i \in DOMAIN virtualNodeMap[id] :
       virtualNodeMap[id][i] # hashFunction(config, <<id, i - 1>>)
  /\ \E id \in Added : \E i \in DOMAIN virtualNodeMap[id] :
       virtualNodeMap[id][i] < hashFunction(config, <<id, i - 1>>)

\* the first position at or after h, the smallest position when there is none
Successor(h) ==
  LET after == {p \in DOMAIN ring : p >= h}
      from == IF after = {} THEN DOMAIN ring ELSE after
  IN  CHOOSE p \in from : \A q \in from : p <= q

\* C22: getNodeForKey returns the owner of the smallest ring position that
\* is at or after the key's hash, the owner of the smallest position when
\* the hash is past every position, and so agrees with a linear scan.
C22_Lookup ==
  (coordinator = "ready" /\ sortedKeys # <<>>) =>
    /\ \A h \in Positions : getNodeForKey(h) = ring[Successor(h)]
    /\ \A t \in Running :
         t.pc = "routed" => t.shard = ring[Successor(t.position)]

\* calls have been routed for a hash past every position, for a hash equal
\* to a position that is not the first, and for a hash between two positions
C22_Witness ==
  /\ coordinator = "ready" /\ Len(sortedKeys) >= 2
  /\ \E t \in Running :
       /\ t.pc = "routed"
       /\ \/ \A p \in DOMAIN ring : p < t.position
          \/ t.position \in DOMAIN ring /\ t.position # sortedKeys[1]
       /\ t.shard # ring[sortedKeys[2]] \/ t.position = sortedKeys[2]

\* what getNodeForKey gives for hash h in the ring of shards 0..n-1
lookupAmong(n, h) ==
  LET rs == Construct(config, n) IN lookup(rs.sortedKeys, rs.ring, h)

\* C24: between the ring of shards 0..N-1 and the ring of shards 0..N every
\* key keeps its shard or maps to the new shard N; no key moves between two
\* shards that were there before, also when vnode positions collide.
C24_KeyLocality ==
  [][ \A id \in NodeIds :
        (id \notin Added /\ id \in Added') =>
          \A h \in Positions :
            \/ getNodeForKey(h)' = getNodeForKey(h)
            \/ getNodeForKey(h)' = id ]_vars

\* a third shard has been added whose vnode was probed past a taken
\* position; it took keys over, and each earlier shard kept some
C24_Witness ==
  /\ 2 \in Added
  /\ \E i \in DOMAIN virtualNodeMap[2] :
       virtualNodeMap[2][i] # hashFunction(config, <<2, i - 1>>)
  /\ \E h \in Positions : getNodeForKey(h) = 2 /\ lookupAmong(2, h) # 2
  /\ \A id \in {0, 1} :
       \E h \in Positions : getNodeForKey(h) = id /\ lookupAmong(2, h) = id

\* C25: on a ring without positions (no shard, or no virtual node per shard)
\* getNodeForKey fails with 'No nodes available in ring' for every key, and
\* set, get and delete fail with it before any command is sent.
C25_EmptyRing ==
  (coordinator = "ready" /\ config.primaryNodes * config.virtualNodeCount = 0)
  => /\ \A h \in Positions : getNodeForKey(h) = NoNodes
     /\ \A t \in Running :
          /\ t.pc = "op_return"
          /\ t.result = "No nodes available in ring"
          /\ t.ep = "none"

\* a call on a coordinator with shards but no virtual nodes has failed
C25_Witness ==
  /\ coordinator = "ready"
  /\ config.primaryNodes > 0 /\ config.virtualNodeCount = 0
  /\ \E t \in Running :
       t.kind = "set" /\ t.result = "No nodes available in ring"

\* C26: a coordinator given primary and replica lists of different lengths
\* fails at startup with a configuration error; it is never put into service
\* and fails in no other way.
C26_MismatchRejected ==
  config.primaryNodes # config.replicaNodes =>
    coordinator \in {"constructing", "ConfigError"}

(* ---------------------------------------------------- independence claims *)
\* C23: set, get, delete, probes, failoverToReplica and handlePrimaryRecovery
\* never change the ring positions or their owners: getNodeForKey gives the
\* same shard for a key before and after each of their steps, and the shard
\* a coordinator newly built from the same configuration gives.
C23_RingUnchanged ==
  /\ [](\A h \in Positions :
          getNodeForKey(h) = lookupAmong(config.primaryNodes, h))
  /\ [][ /\ ring' = ring
         /\ sortedKeys' = sortedKeys
         /\ virtualNodeMap' = virtualNodeMap
         /\ \A h \in Positions : getNodeForKey(h)' = getNodeForKey(h) ]_vars

\* the observed shard has failed over and recovered, with its role pointers
\* swapped, and a call on the other shard has returned
C23_Witness ==
  /\ \E s \in Observed :
       /\ failoverStatus[s].status = "RECOVERED"
       /\ nodes[s].primary = "R"
  /\ \E t \in Running : t.kind \in {"set", "get", "delete"} /\ t.pc = "op_return"
  /\ \E h \in Positions : getNodeForKey(h) \in Observed
  /\ \E h \in Positions : getNodeForKey(h) \notin Observed

\* C27: failover and recovery of one shard leave the role pointers, the
\* failover record and the health record of every other shard unchanged, and
\* a set, get or delete on another shard is never refused because of it.
C27_ShardsIndependent ==
  [][ \A b \in Shards \ Observed :
        /\ nodes'[b] = nodes[b]
        /\ failoverStatus'[b] = failoverStatus[b]
        /\ nodeStatus'[b] = nodeStatus[b]
        /\ \A u \in BagToSet(tasks') :
             (u.shard = b /\ Started(u)) =>
               /\ u.result # "NODE_IN_FAILOVER"
               /\ u.pc = "op_return" => u.ep # "none" ]_vars

\* while the failover of the observed shard is in flight a set on the other
\* shard has been written to that shard's primary
C27_Witness ==
  /\ \E s \in Observed :
       /\ failoverStatus[s].status = "FAILING_OVER"
       /\ \E t \in Running : t.shard = s /\ t.pc \in FailoverPcs
  /\ \E t \in Running :
       /\ t.shard \notin Observed
       /\ t.kind = "set" /\ t.pc = "op_return" /\ t.result = "ok"
       /\ ~redis[t.shard][t.ep].data[t.key].nil

(* ------------------------------------------------------- monitor claims *)
\* C28: at most one checkNode run per shard is in flight at any time; a tick
\* that fires while the run of an earlier tick is unfinished starts no run.
C28_OneCheckPerShard == \A s \in Shards : NumChecks(s) <= 1

\* C29: once stop() has returned, and until startMonitoring is called, the
\* monitor starts no probe and changes no health record, failover record or
\* role pointer; stop() on a stopped monitor has no effect.
C29_StopQuiesces ==
  [][ (intervalId = "null" /\ intervalId' = "null") =>
        /\ \A u \in BagToSet(tasks') : ~(u.pc = "ping" /\ Started(u))
        /\ nodeStatus' = nodeStatus
        /\ failoverStatus' = failoverStatus
        /\ nodes' = nodes ]_vars

\* C30: healthHistory never holds more than 100 events; it holds the most
\* recent events, at most 100 of them, in the order they were logged, the
\* oldest having been dropped for each event logged at capacity.
C30_HistoryBounded ==
  LET n == Len(healthHistory)
  IN  /\ n <= HistoryLimit
      /\ n = (IF Clock < HistoryLimit THEN Clock ELSE HistoryLimit)
      /\ \A i \in 1..n : healthHistory[i].timestamp = Clock - n + i

\* the history is full and its oldest events have been dropped
C30_Witness ==
  /\ Len(healthHistory) = HistoryLimit
  /\ healthHistory[1].timestamp > 1
  /\ healthHistory[HistoryLimit].timestamp = healthHistory[1].timestamp + 99

(* -------------------------------------------------------- metrics claims *)
\* C31: totalFailovers, successfulFailovers, failedFailovers and
\* totalFailoverTime never decrease, and once a failover has succeeded the
\* stored average is totalFailoverTime divided by successfulFailovers.
C31_MetricsMonotone ==
  /\ [](failoverMetrics.successfulFailovers > 0 =>
          LET avg == failoverMetrics.averageFailoverTime
          IN  /\ avg.per = failoverMetrics.successfulFailovers
              /\ avg.rest \in 0..(avg.per - 1)
              /\ avg.whole * avg.per + avg.rest
                   = failoverMetrics.totalFailoverTime)
  /\ [][ /\ failoverMetrics'.totalFailovers >= failoverMetrics.totalFailovers
         /\ failoverMetrics'.successfulFailovers
              >= failoverMetrics.successfulFailovers
         /\ failoverMetrics'.failedFailovers
              >= failoverMetrics.failedFailovers
         /\ failoverMetrics'.totalFailoverTime
              >= failoverMetrics.totalFailoverTime ]_vars

\* two failovers have succeeded, taking an odd number of milliseconds
\* together
C31_Witness ==
  /\ failoverMetrics.successfulFailovers = 2
  /\ failoverMetrics.averageFailoverTime.rest = 1

\* C35: totalFailovers counts only successful failovers: it always equals
\* successfulFailovers, a failed failover increments failedFailovers alone,
\* and the success rate reported is 100.0% whenever it is not N/A.
C35_TotalCountsSuccesses ==
  /\ [](/\ failoverMetrics.totalFailovers
             = failoverMetrics.successfulFailovers
        /\ \/ successRate(failoverMetrics).na
           \/ successRate(failoverMetrics).tenths = 1000)
  /\ [][ failoverMetrics'.failedFailovers > failoverMetrics.failedFailovers
           => /\ failoverMetrics'.failedFailovers
                   = failoverMetrics.failedFailovers + 1
              /\ failoverMetrics'.totalFailovers
                   = failoverMetrics.totalFailovers
              /\ failoverMetrics'.successfulFailovers
                   = failoverMetrics.successfulFailovers ]_vars

\* a failover has succeeded after a promotion had failed, and the rate
\* reported is 100.0%
C35_Witness ==
  /\ failoverMetrics.failedFailovers = 1
  /\ failoverMetrics.successfulFailovers = 1
  /\ successRate(failoverMetrics) = [na |-> FALSE, tenths |-> 1000]
  /\ \E s \in Observed, e \in Endpoints :
       ~redis[s][e].readOnly /\ nodes[s].primary = e

(* --------------------------------------------------------- report claims *)
\* C32: getAllStats never fails because the INFO calls of one shard fail:
\* that shard's entry carries an error and every other shard's entry is
\* computed; for a shard that answers, the lag is max(0, primary offset -
\* replica offset) and the status is synced exactly when the lag is 0.
C32_StatsPerShard ==
  /\ [](report.kind = "stats" =>
          /\ \A s \in Shards \ Observed : ~report.nodes[s].error
          /\ \A s \in Shards :
               LET e == report.nodes[s]
               IN  /\ e.status \in {"none", "synced", "lagging"}
                   /\ e.error <=> e.status = "none"
                   /\ e.lag >= 0
                   /\ e.status = "synced" <=> (~e.error /\ e.lag = 0))
  /\ [][ /\ \A t \in StatsCalls, u \in BagToSet(tasks') :
              ( /\ t.pc = "stats_replica" /\ Ended(t)
                /\ u.kind = "stats" /\ u.shard = t.shard
                /\ u.pc = "stats_entry" /\ Started(u) )
              => IF up[t.shard][t.ep]
                   THEN LET d == t.offset - offset[t.shard][t.ep]
                        IN  /\ ~u.entry.error
                            /\ u.entry.lag = IF d > 0 THEN d ELSE 0
                   ELSE u.entry.error
         /\ report' # report =>
              /\ report'.kind = "stats"
              /\ \A s \in Shards : report'.nodes[s] = EntryOf(s) ]_vars

\* getAllStats has returned an error entry for the observed shard next to a
\* lagging entry for the other shard
C32_Witness ==
  /\ report.kind = "stats"
  /\ \E s \in Observed : report.nodes[s].error
  /\ \E s \in Shards \ Observed :
       report.nodes[s].status = "lagging" /\ report.nodes[s].lag > 0

(* ------------------------------------------------------------ set claims *)
\* C33: a successful set reports the target promoted_replica exactly when
\* the endpoint it wrote to is not the shard's original primary, and primary
\* otherwise, also in status RECOVERED: here for the sets that wrote to the
\* endpoint in the primary slot of a shard whose record is RECOVERED.
C33_TargetNamesEndpoint ==
  [][\A t \in BagToSet(tasks') \ Running :
       ( /\ t.kind = "set" /\ t.pc = "op_return" /\ t.result = "ok"
         /\ failoverStatus[t.shard].status = "RECOVERED"
         /\ t.first = nodes[t.shard].primary )
       => (setTarget(t.shard) = "promoted_replica" <=> t.first # "P")]_vars

\* C34: the mode of the request overrides the default: a write asked for in
\* mode sync is executed in sync mode, a WAIT being issued and the result
\* carrying replication mode sync, both when set is called on the
\* coordinator and when the write is posted to POST /cache of the API
\* front-end with replicationMode sync.
C34_RequestModeOverrides ==
  \A t \in Running :
    (t.kind = "set" /\ t.requested = "sync") =>
      /\ t.mode = "sync"
      /\ (t.pc = "op_return" /\ t.result = "ok") => t.status # "async"

(* ------------------------------------------------- monitor record claims *)
\* C36: under any overlap of checkNode runs of a shard, a shard whose health
\* status is HEALTHY has a failure counter below failureThreshold; the
\* status is always HEALTHY, FAILED or FAILED_OVER, so the three counts of
\* the health summary add up to totalNodes.
C36_HealthyBelowThreshold ==
  /\ \A s \in Shards :
       /\ nodeStatus[s].status \in {"HEALTHY", "FAILED", "FAILED_OVER"}
       /\ nodeStatus[s].status = "HEALTHY" =>
            nodeStatus[s].failCount < failureThreshold
  /\ getHealthSummary.healthy + getHealthSummary.failed
       + getHealthSummary.failedOver = getHealthSummary.totalNodes

\* while a check run of the shard still awaits its failover, a later run has
\* found the shard healthy again and two more probes have failed
C36_Witness ==
  \E s \in Observed :
    /\ NumChecks(s) >= 2
    /\ \E t \in Checks(s) : t.pc \in FailoverPcs
    /\ nodeStatus[s].status = "HEALTHY"
    /\ nodeStatus[s].failCount = failureThreshold - 1

\* C37: handlePrimaryRecovery sends no command and leaves the failover
\* record unchanged unless the record has promoted = true, and that holds
\* only in status FAILED_OVER; a call in any other status, a second call
\* after a completed recovery included, returns at once
C37_RecoveryOnlyWhenPromoted ==
  /\ [](\A s \in Shards :
          failoverStatus[s].promoted => failoverStatus[s].status = "FAILED_OVER")
  /\ [][\A s \in Shards : \A t \in Checks(s) :
          ( /\ IsFailedStatus(nodeStatus[s].status)
            /\ failoverStatus[s].status # "FAILED_OVER"
            /\ ProbeOK(t) )
          => /\ tasks' = Replace(tasks, t, [t EXCEPT !.pc = "rec_done"])
             /\ failoverStatus' = failoverStatus
             /\ redis' = redis]_vars

\* a run reached handlePrimaryRecovery after another one had written
\* RECOVERED, and returned without addressing the demoted endpoint
C37_Witness ==
  \E s \in Observed :
    /\ failoverStatus[s].status = "RECOVERED"
    /\ NumChecks(s) >= 2
    /\ \E t \in Checks(s) : t.pc = "rec_done" /\ t.ep = nodes[s].primary
    /\ \E t \in Checks(s) : t.pc = "rec_done" /\ t.ep = nodes[s].replica

\* C38: when failoverToReplica has ended in FAILOVER_FAILED, the endpoint in
\* the replica slot that is still a replica of the primary is still
\* read-only: replica-read-only is never left switched off on an endpoint
\* whose promotion did not complete
C38_FailedFailoverLeavesReplica ==
  \A s \in Shards :
    LET e == nodes[s].replica
    IN  ( /\ failoverStatus[s].status = "FAILOVER_FAILED"
          /\ redis[s][e].master = nodes[s].primary )
        => redis[s][e].readOnly

(* ------------------------------------------------------------ visualizeRing *)
\* visualizeRing lines 534-544: the arc credited to the virtual node at
\* sortedKeys[index] (index counts from 0 as in the source)
range(index) ==
  LET position == sortedKeys[index + 1]
      nextPosition == sortedKeys[((index + 1) % Len(sortedKeys)) + 1]
  IN  IF nextPosition > position
        THEN nextPosition - position
        ELSE (hashSpace - position) + nextPosition

\* visualizeRing lines 534-550: nodeRanges after the first n virtual nodes
RECURSIVE nodeRanges(_, _)
nodeRanges(n, physicalNodeName) ==
  IF n = 0 THEN 0
  ELSE nodeRanges(n - 1, physicalNodeName)
         + (IF ring[sortedKeys[n]] = physicalNodeName THEN range(n - 1) ELSE 0)

\* visualizeRing lines 552-568: physicalNodes, one entry per shard that owns
\* a position
visualizeRing ==
  [physicalNodeName \in {ring[p] : p \in DOMAIN ring} |->
     [virtualNodes |-> Len(virtualNodeMap[physicalNodeName]),
      rangeSize |-> nodeRanges(Len(sortedKeys), physicalNodeName)]]

\* the hash values getNodeForKey resolves to the shard
KeysOf(id) == {h \in Positions : getNodeForKey(h) = id}

\* C39: for every shard the rangeSize visualizeRing reports is the number of
\* hash values getNodeForKey resolves to that shard, and the rangeSizes of
\* all shards sum to the size of the hash space
C39_RangeSizeCountsKeys ==
  (coordinator = "ready" /\ sortedKeys # <<>>) =>
    \A id \in DOMAIN visualizeRing :
      visualizeRing[id].rangeSize = Cardinality(KeysOf(id))

(* ---------------------------------------------- ConsistentHashRingWithVNodes *)
\* ConsistentHashRingWithVNodes keeps ring, sortedKeys and virtualNodeMap as
\* the replicated ring does, and its addNode fills them with the same loop
\* (lines 75-97); its nodes are the ids of virtualNodeMap, each with one Redis
\* server. Keys are stored without a TTL.

\* what the virtual-node ring leaves alone
replicationVars ==
  <<nodes, up, redis, failoverStatus, failoverMetrics, nodeStatus,
    healthHistory, tasks, promotedBy, consecFails, intervalId, now, statsVars>>

\* the constructor's arguments: at least one node and one virtual node, no
\* replicas
VNodeConfigs ==
  UNION { ConfigsOf(x[1], 0, x[2]) :
          x \in { y \in (1..MaxShards) \X (1..MaxVirtualNodes) :
                    y[1] * y[2] <= hashSpace } }

\* a virtual-node ring constructed from any configuration, its servers empty
InitVNodes ==
  /\ InitCluster
  /\ config \in VNodeConfigs
  /\ coordinator = "ready"
  /\ ring = Construct(config, config.primaryNodes).ring
  /\ sortedKeys = Construct(config, config.primaryNodes).sortedKeys
  /\ virtualNodeMap = Construct(config, config.primaryNodes).virtualNodeMap
  /\ intervalId = "null"
  /\ keyHash \in [CacheKeys -> Positions]
  /\ store = [n \in NodeIds |-> [key \in CacheKeys |-> NilReply]]
  /\ offset = <<>>

\* getNodeForKey(key) of the virtual-node ring (lines 242-276) in the ring
\* with the sorted positions keys and the owner map r
vnodeForKey(keys, r, key) == lookup(keys, r, keyHash[key])

\* set(key, value) of the virtual-node ring (lines 301-328), before any
\* removeNode call
vnodeSet(key, text) ==
  /\ removal.pc = "idle"
  /\ sortedKeys # <<>>
  /\ store' = [store EXCEPT ![vnodeForKey(sortedKeys, ring, key)][key] = Bulk(text)]
  /\ UNCHANGED <<replicationVars, ringVars, keyHash, removal>>

\* removeNode(nodeName) up to its first await, client.keys('*') in
\* migrateDataFromRemovedNode (lines 106-148)
removeNode(nodeName) ==
  /\ removal.pc = "idle"
  /\ nodeName \in DOMAIN virtualNodeMap
  /\ removal' = [pc |-> "keys", node |-> nodeName, keys |-> <<>>, index |-> 0,
                 positionTransferMap |-> <<>>, migratedCount |-> 0,
                 failedCount |-> 0]
  /\ UNCHANGED <<replicationVars, ringVars, keyHash, store>>

\* the orders in which KEYS * may list the keys of a set
Listings(S) ==
  {l \in [1..Cardinality(S) -> S] : \A i, j \in DOMAIN l : l[i] = l[j] => i = j}

\* this.sortedKeys.indexOf(position), counting from 0
indexOf(position) ==
  (CHOOSE i \in DOMAIN sortedKeys : sortedKeys[i] = position) - 1

\* migrateDataFromRemovedNode lines 162-175: each position of the removed
\* node with the owner of the next position clockwise
positionTransferMap(virtualPositions) ==
  [position \in {virtualPositions[i] : i \in DOMAIN virtualPositions} |->
     ring[sortedKeys[((indexOf(position) + 1) % Len(sortedKeys)) + 1]]]

\* migrateDataFromRemovedNode lines 188-194: the scan from position i down
RECURSIVE scanOwning(_, _, _)
scanOwning(virtualPositions, keyPosition, i) ==
  IF i = 0 THEN virtualPositions[Len(virtualPositions)]
  ELSE IF virtualPositions[i] <= keyPosition THEN virtualPositions[i]
  ELSE scanOwning(virtualPositions, keyPosition, i - 1)

\* migrateDataFromRemovedNode lines 186-199: owningPosition of a key
owningPosition(virtualPositions, keyPosition) ==
  scanOwning(virtualPositions, keyPosition, Len(virtualPositions))

\* migrateDataFromRemovedNode resumes after client.keys('*') (lines 148-175):
\* it throws, returns for an empty list, or builds positionTransferMap
KeysReply ==
  /\ removal.pc = "keys"
  /\ \/ removal' = NoRemoval
     \/ \E l \in Listings({key \in CacheKeys :
                             store[removal.node][key] # NilReply}) :
          removal' =
            IF Len(l) = 0 THEN [removal EXCEPT !.pc = "migrated"]
            ELSE [removal EXCEPT
                    !.pc = "migrating", !.keys = l,
                    !.positionTransferMap =
                       positionTransferMap(virtualNodeMap[removal.node])]
  /\ UNCHANGED <<replicationVars, ringVars, keyHash, store>>

\* the node migrateDataFromRemovedNode sends a key to (lines 183-201)
nextNode(key) ==
  removal.positionTransferMap[
    owningPosition(virtualNodeMap[removal.node], keyHash[key])]

\* migrateDataFromRemovedNode lines 178-222: one pass of the key loop. GET,
\* TTL or SET fails and the key is counted failed; SET and DEL succeed; or
\* SET succeeds and DEL fails
MigrateKey ==
  /\ removal.pc = "migrating"
  /\ removal.index < Len(removal.keys)
  /\ LET key == removal.keys[removal.index + 1]
         from == removal.node
         to == nextNode(key)
     IN  \/ /\ removal' = [removal EXCEPT !.index = @ + 1,
                                          !.failedCount = @ + 1]
            /\ UNCHANGED store
         \/ /\ removal' = [removal EXCEPT !.index = @ + 1,
                                          !.migratedCount = @ + 1]
            /\ store' = [[store EXCEPT ![to][key] = store[from][key]]
                            EXCEPT ![from][key] = NilReply]
         \/ /\ removal' = [removal EXCEPT !.index = @ + 1,
                                          !.migratedCount = @ + 1,
                                          !.failedCount = @ + 1]
            /\ store' = [store EXCEPT ![to][key] = store[from][key]]
  /\ UNCHANGED <<replicationVars, ringVars, keyHash>>

\* ring and sortedKeys without the positions of a node, virtualNodeMap
\* without its entry (removeNode lines 123-137)
withoutNode(nodeName) ==
  LET gone == {virtualNodeMap[nodeName][i] : i \in DOMAIN virtualNodeMap[nodeName]}
  IN  [ring |-> [p \in DOMAIN ring \ gone |-> ring[p]],
       sortedKeys |-> SelectSeq(sortedKeys, LAMBDA pos : pos \notin gone),
       virtualNodeMap |-> [n \in DOMAIN virtualNodeMap \ {nodeName} |->
                             virtualNodeMap[n]]]

\* removeNode resumes after migrateDataFromRemovedNode (lines 122-139): the
\* positions leave ring and sortedKeys, the client quits, the node is
\* forgotten
RemoveVirtualNodes ==
  /\ \/ removal.pc = "migrated"
     \/ removal.pc = "migrating" /\ removal.index = Len(removal.keys)
  /\ ring' = withoutNode(removal.node).ring
  /\ sortedKeys' = withoutNode(removal.node).sortedKeys
  /\ virtualNodeMap' = withoutNode(removal.node).virtualNodeMap
  /\ removal' = [removal EXCEPT !.pc = "done"]
  /\ UNCHANGED <<replicationVars, config, coordinator, keyHash, store>>

\* the promise of removeNode resolves
removeNodeReturn ==
  /\ removal.pc = "done"
  /\ removal' = NoRemoval
  /\ UNCHANGED <<replicationVars, ringVars, keyHash, store>>

NextVNodes ==
  \/ \E key \in CacheKeys, text \in CacheTexts : vnodeSet(key, text)
  \/ \E nodeName \in NodeIds : removeNode(nodeName)
  \/ KeysReply
  \/ MigrateKey
  \/ RemoveVirtualNodes
  \/ removeNodeReturn

SpecVNodes == InitVNodes /\ [][NextVNodes]_vars

\* C40: when removeNode(n) has completed without a failed key, every key
\* that was stored on n is stored on the node getNodeForKey resolves in the
\* ring without n and no longer on n, and no step of the migration touches a
\* key of another node that is not being moved there
C40_RemovedKeysRehomed ==
  /\ [](( /\ removal.pc = "done"
          /\ removal.failedCount = 0
          /\ sortedKeys # <<>> )
        => \A i \in DOMAIN removal.keys :
             LET key == removal.keys[i]
             IN  /\ store[vnodeForKey(sortedKeys, ring, key)][key] # NilReply
                 /\ store[removal.node][key] = NilReply)
  /\ [][\A n \in NodeIds, key \in CacheKeys :
          ( /\ removal.pc = "migrating"
            /\ n # removal.node
            /\ store'[n][key] # store[n][key] )
          => /\ store'[n][key] = store[removal.node][key]
             /\ n = vnodeForKey(withoutNode(removal.node).sortedKeys,
                                withoutNode(removal.node).ring, key)]_vars
====
